---- MODULE Spec2Model ----
(***************************************************************************)
(* herberelias/btc: candle ingestion -> indicators -> feature encoding ->  *)
(* signal prediction (model-backed or rule-based) -> gate -> stored        *)
(* prediction.                                                             *)
(*                                                                         *)
(* Numbers.  Every Python float / Decimal is carried in fixed point with   *)
(* UNIT steps per 1.0, so 70.0 is F(70) and a probability 0.7 is 700.      *)
(* Python None is None where a number is expected, NoneObj where an object *)
(* is expected and NoneDict where a dict is expected.  A dict is a function*)
(* whose DOMAIN is the set of keys that are present; an insertion-ordered  *)
(* dict whose order matters (the feature vector) is a sequence of          *)
(* <<key, value>> pairs.                                                   *)
(***************************************************************************)
EXTENDS Integers, Sequences, FiniteSets, TLC

UNIT == 10 * 10 * 10
F(x) == x * UNIT

None == 0 - UNIT * UNIT * UNIT
NoneObj == "None"
NoneDict == [none |-> TRUE]
Absent == "absent"        \* a file that does not exist
Corrupt == "corrupt"      \* a file on which joblib.load raises

\* mutant: a key present with None reads as its default
Get_null_as_default(d, k, default) ==
    IF k \in DOMAIN d /\ d[k] # None THEN d[k] ELSE default

Get(d, k, default) == IF k \in DOMAIN d THEN d[k] ELSE default
Truthy(v) == v # None /\ v # 0
Abs(x) == IF x < 0 THEN -x ELSE x
Min2(a, b) == IF a < b THEN a ELSE b
MaxOf(s) == CHOOSE m \in {s[i] : i \in DOMAIN s} : \A j \in DOMAIN s : s[j] <= m

(***************************************************************************)
(* app/config.py                                                           *)
(***************************************************************************)
MODEL_VERSION == "1.0"
DEFAULT_MIN_CONFIDENCE_THRESHOLD == F(70)
MIN_CANDLES_FOR_INDICATORS == 50
MAX_CANDLES_HISTORY == 500

(***************************************************************************)
(* app/ml/predictor.py : MLPredictor                                       *)
(***************************************************************************)

\* mutant: the levels are cut to the cent below instead of rounded
Round2Q_truncated(x4) == (x4 \div (4 * (UNIT \div 100))) * (UNIT \div 100)

\* round(x, 2) of a value given in quarter steps (x4 = 4 * value in UNIT
\* steps): the nearest whole cent, an exact tie going to the even cent.
Round2Q(x4) ==
    LET cent4 == 4 * (UNIT \div 100)
        lo == x4 \div cent4
        r == x4 % cent4
    IN  IF 2 * r < cent4 THEN lo * (UNIT \div 100)
        ELSE IF 2 * r > cent4 THEN (lo + 1) * (UNIT \div 100)
        ELSE IF lo % 2 = 0 THEN lo * (UNIT \div 100)
        ELSE (lo + 1) * (UNIT \div 100)

\* multiplier = 1.5 and risk_reward = 1.5, as numerator over 2
MULTIPLIER_X2 == 3
RISK_REWARD_X2 == 3

\* Intermediate values are kept in quarter steps so that the two
\* multiplications by 1.5 are exact.
_calculate_levels(current_price, pred_type, atr) ==
    LET cp4 == 4 * current_price
        atrm4 == 2 * atr * MULTIPLIER_X2
    IN  IF pred_type = "LONG" THEN
            LET stop_loss == cp4 - atrm4
                distance == cp4 - stop_loss
                take_profit == cp4 + (distance * RISK_REWARD_X2) \div 2
            IN  <<Round2Q(stop_loss), Round2Q(take_profit)>>
        ELSE IF pred_type = "SHORT" THEN
            LET stop_loss == cp4 + atrm4
                distance == stop_loss - cp4
                take_profit == cp4 - (distance * RISK_REWARD_X2) \div 2
            IN  <<Round2Q(stop_loss), Round2Q(take_profit)>>
        ELSE
            <<Round2Q(cp4 - atrm4), Round2Q(cp4 + atrm4)>>

\* mutant: every positive label is LONG
_convert_prediction_to_type_positive(prediction) ==
    IF prediction >= 1 THEN "LONG"
    ELSE IF prediction = -1 THEN "SHORT"
    ELSE "NEUTRAL"

_convert_prediction_to_type(prediction) ==
    IF prediction = 1 THEN "LONG"
    ELSE IF prediction = -1 THEN "SHORT"
    ELSE "NEUTRAL"

\* atr = indicators.get('atr', 0); levels only if current_price and atr
Levels(indicators, current_price, pred_type) ==
    LET atr == Get(indicators, "atr", 0)
    IN  IF Truthy(current_price) /\ Truthy(atr)
        THEN _calculate_levels(current_price, pred_type, atr)
        ELSE <<None, None>>

\* score >= 2 -> LONG, score <= -2 -> SHORT, else NEUTRAL
RuleType(score) ==
    IF score >= 2 THEN "LONG"
    ELSE IF score <= -2 THEN "SHORT"
    ELSE "NEUTRAL"

\* mutant: the cap of 75 is forgotten
RuleConfidence_uncapped(score) ==
    IF score >= 2 THEN F(60) + score * F(5)
    ELSE IF score <= -2 THEN F(60) + Abs(score) * F(5)
    ELSE F(50)

\* mutant: a NEUTRAL result gets the confidence of the weakest signal
RuleConfidence_neutral_70(score) ==
    IF score >= 2 THEN Min2(F(60) + score * F(5), F(75))
    ELSE IF score <= -2 THEN Min2(F(60) + Abs(score) * F(5), F(75))
    ELSE F(70)

RuleConfidence(score) ==
    IF score >= 2 THEN Min2(F(60) + score * F(5), F(75))
    ELSE IF score <= -2 THEN Min2(F(60) + Abs(score) * F(5), F(75))
    ELSE F(50)

\* The points and the reasons the three rules add
RuleScore(rsi, macd, macd_signal, ema_20, ema_50) ==
    (IF rsi < F(30) THEN 2 ELSE IF rsi > F(70) THEN -2 ELSE 0)
    + (IF macd > macd_signal THEN 1 ELSE IF macd < macd_signal THEN -1 ELSE 0)
    + (IF ema_20 > ema_50 THEN 1 ELSE IF ema_20 < ema_50 THEN -1 ELSE 0)

RuleReasons(rsi, macd, macd_signal, ema_20, ema_50) ==
    (IF rsi < F(30) THEN <<"RSI oversold">>
     ELSE IF rsi > F(70) THEN <<"RSI overbought">> ELSE <<>>)
    \o (IF macd > macd_signal THEN <<"MACD bullish">>
        ELSE IF macd < macd_signal THEN <<"MACD bearish">> ELSE <<>>)
    \o (IF ema_20 > ema_50 THEN <<"EMA 20>50">>
        ELSE IF ema_20 < ema_50 THEN <<"EMA 20<50">> ELSE <<>>)

\* The try-body of _predict_with_rules.  exc is TRUE when a statement of the
\* body raises: an ordering comparison with None is a TypeError.
RulesBody(indicators, current_price) ==
    LET rsi == Get(indicators, "rsi_14", F(50))
        macd == Get(indicators, "macd", 0)
        macd_signal == Get(indicators, "macd_signal", 0)
        ema_20 == Get(indicators, "ema_20", 0)
        ema_50 == Get(indicators, "ema_50", 0)
    IN  IF rsi = None \/ macd = None \/ macd_signal = None
           \/ ema_20 = None \/ ema_50 = None
        THEN [exc |-> TRUE, ret |-> NoneDict]
        ELSE
        LET score == RuleScore(rsi, macd, macd_signal, ema_20, ema_50)
            pred_type == RuleType(score)
            lv == Levels(indicators, current_price, pred_type)
        IN  [exc |-> FALSE,
             ret |-> [type |-> pred_type,
                      confidence |-> RuleConfidence(score),
                      features_used |->
                          << <<"rules", RuleReasons(rsi, macd, macd_signal,
                                                    ema_20, ema_50)>> >>,
                      stop_loss |-> lv[1],
                      take_profit |-> lv[2],
                      model_version |-> "rules-based"]]

\* mutant: the body runs without its try/except
_predict_with_rules_no_except(indicators, current_price) ==
    RulesBody(indicators, current_price)

\* try: RulesBody  except Exception: return None
_predict_with_rules(indicators, current_price) ==
    LET b == RulesBody(indicators, current_price)
    IN  IF b.exc THEN [exc |-> FALSE, ret |-> NoneDict] ELSE b

\* load_model on the predictor self = [model, scaler] with the files fs =
\* [model, scaler] on disk.  A file is Absent, Corrupt or the id of the
\* object joblib.load returns for it.
load_model(self, fs) ==
    IF fs.model = Absent
    THEN [ret |-> FALSE, model |-> self.model, scaler |-> self.scaler]
    ELSE IF fs.model = Corrupt
    THEN [ret |-> FALSE, model |-> self.model, scaler |-> self.scaler]
    ELSE IF fs.scaler = Absent
    THEN [ret |-> TRUE, model |-> fs.model, scaler |-> self.scaler]
    ELSE IF fs.scaler = Corrupt
    THEN [ret |-> FALSE, model |-> fs.model, scaler |-> self.scaler]
    ELSE [ret |-> TRUE, model |-> fs.model, scaler |-> fs.scaler]

(***************************************************************************)
(* app/ml/feature_engineer.py : FeatureEngineer                            *)
(* df is the candle window, a sequence of records [open_time, open, high,  *)
(* low, close, volume]; df.iloc[-1] is df[Len(df)].                        *)
(***************************************************************************)
IsNoneDict(d) == "none" \in DOMAIN d
DictTruthy(d) == ~IsNoneDict(d) /\ DOMAIN d # {}

\* (a - b) / b * 100
PctChange(a, b) == ((a - b) * 100 * UNIT) \div b

\* a / b
Ratio(a, b) == (a * UNIT) \div b

\* np.polyfit(range(5), v, 1)[0]: the least-squares slope over x = 0..4
Slope5(v) == (2 * v[5] + v[4] - v[2] - 2 * v[1]) \div 10

create_price_features(df) ==
    LET n == Len(df)
        price_change_1 == IF n >= 2
                          THEN PctChange(df[n].close, df[n - 1].close) ELSE 0
        price_change_5 == IF n >= 6
                          THEN PctChange(df[n].close, df[n - 5].close) ELSE 0
    IN  IF n = 0 THEN <<>>      \* df.iloc[-1] raises IndexError: return {}
        ELSE LET last_candle == df[n]
             IN  << <<"price_change_1", price_change_1>>,
                    <<"price_change_5", price_change_5>>,
                    <<"high_low_ratio",
                      IF last_candle.low > 0
                      THEN Ratio(last_candle.high, last_candle.low) ELSE F(1)>>,
                    <<"close_open_ratio",
                      IF last_candle.open > 0
                      THEN Ratio(last_candle.close, last_candle.open) ELSE F(1)>> >>

\* One cross feature: both inputs truthy, then 1 if a > b else -1; else 0
Cross(indicators, a, b) ==
    IF Truthy(Get(indicators, a, None)) /\ Truthy(Get(indicators, b, None))
    THEN (IF indicators[a] > indicators[b] THEN F(1) ELSE -F(1))
    ELSE 0

create_trend_features(indicators) ==
    << <<"ema_20_50_cross", Cross(indicators, "ema_20", "ema_50")>>,
       <<"ema_50_200_cross", Cross(indicators, "ema_50", "ema_200")>>,
       <<"macd_signal_cross", Cross(indicators, "macd", "macd_signal")>>,
       <<"price_above_ema20",
         IF Truthy(Get(indicators, "ema_20", None)) THEN F(1) ELSE 0>> >>

create_volume_features(df, indicators) ==
    LET n == Len(df)
    IN  << <<"volume_ratio", Get(indicators, "volume_ratio", 0)>>,
           <<"volume_change_1",
             IF n >= 2
             THEN (IF df[n - 1].volume > 0
                   THEN PctChange(df[n].volume, df[n - 1].volume) ELSE 0)
             ELSE 0>>,
           <<"volume_trend_5",
             IF n >= 5
             THEN Slope5([i \in 1..5 |-> df[n - 5 + i].volume])
             ELSE 0>> >>

create_volatility_features(indicators) ==
    << <<"bb_width", Get(indicators, "bb_width", 0)>>,
       <<"atr", Get(indicators, "atr", 0)>> >>

create_momentum_features(indicators) ==
    << <<"rsi_14", Get(indicators, "rsi_14", F(50))>>,
       <<"rsi_7", Get(indicators, "rsi_7", F(50))>>,
       <<"macd_histogram", Get(indicators, "macd_histogram", 0)>>,
       <<"stoch_k", Get(indicators, "stoch_k", F(50))>>,
       <<"stoch_d", Get(indicators, "stoch_d", F(50))>>,
       <<"adx", Get(indicators, "adx", 0)>>,
       <<"cci", Get(indicators, "cci", 0)>> >>

\* dict.update on insertion-ordered dicts: an existing key keeps its place
\* and takes the new value, a new key is appended.
DictUpdate(d, u) ==
    LET keysD == {d[i][1] : i \in DOMAIN d}
        NewValue(kv) == IF \E j \in DOMAIN u : u[j][1] = kv[1]
                        THEN u[CHOOSE j \in DOMAIN u : u[j][1] = kv[1]]
                        ELSE kv
    IN  [i \in DOMAIN d |-> NewValue(d[i])]
        \o SelectSeq(u, LAMBDA kv : kv[1] \notin keysD)

\* the market-context features with bear encoded like any other regime
MarketContextFeatures_bear_as_other(market_context) ==
    IF DictTruthy(market_context)
    THEN LET regime == Get(market_context, "market_regime", "unknown")
         IN  << <<"btc_dominance", Get(market_context, "btc_dominance", F(50))>>,
                <<"fear_greed_index",
                  Get(market_context, "fear_greed_index", F(50))>>,
                <<"market_regime_encoded",
                  IF regime = "bull" THEN F(1) ELSE 0>> >>
    ELSE << <<"btc_dominance", F(50)>>,
            <<"fear_greed_index", F(50)>>,
            <<"market_regime_encoded", 0>> >>

\* create_all_features, "Market context features": if market_context: ...
MarketContextFeatures(market_context) ==
    IF DictTruthy(market_context)
    THEN LET regime == Get(market_context, "market_regime", "unknown")
         IN  << <<"btc_dominance", Get(market_context, "btc_dominance", F(50))>>,
                <<"fear_greed_index",
                  Get(market_context, "fear_greed_index", F(50))>>,
                <<"market_regime_encoded",
                  IF regime = "bull" THEN F(1)
                  ELSE IF regime = "bear" THEN -F(1) ELSE 0>> >>
    ELSE << <<"btc_dominance", F(50)>>,
            <<"fear_greed_index", F(50)>>,
            <<"market_regime_encoded", 0>> >>

\* for key, value in all_features.items(): None -> 0.0, a number -> float
CoerceFloats(d) ==
    [i \in DOMAIN d |-> <<d[i][1], IF d[i][2] = None THEN 0 ELSE d[i][2]>>]

\* ok = FALSE: a statement of the try-body outside the five guarded
\* create_*_features calls raises (pandas rejects the window); the except
\* returns {}.
create_all_features(candles, indicators, market_context, ok) ==
    IF ~ok THEN <<>>
    ELSE
    LET df == candles
        f1 == DictUpdate(<<>>, create_price_features(df))
        f2 == DictUpdate(f1, create_trend_features(indicators))
        f3 == DictUpdate(f2, create_volume_features(df, indicators))
        f4 == DictUpdate(f3, create_volatility_features(indicators))
        f5 == DictUpdate(f4, create_momentum_features(indicators))
        all_features == DictUpdate(f5, MarketContextFeatures(market_context))
    IN  CoerceFloats(all_features)

(***************************************************************************)
(* MLPredictor.predict.  env is what the outside world does during this    *)
(* call: features_ok (create_all_features' body does not raise),           *)
(* transform_ok / predict_ok / proba_ok (the scaler's and the classifier's *)
(* calls do not raise), label (model.predict(X)[0]) and proba              *)
(* (model.predict_proba(X)[0], in UNIT steps).                             *)
(* The result carries the return value ret, exc (an exception leaves       *)
(* predict), the predictor's fields after the call, and what the call did: *)
(* load_called, load_ret, features ("not built", "empty" or "built": what   *)
(* create_all_features returned), clf_invoked (model.predict was called),  *)
(* scored_by (the classifier and scaler the model-backed path works with), *)
(* failed (the step of the model-backed path that failed), path (the       *)
(* return statement taken) and env itself.                                 *)
(***************************************************************************)
\* mutant: an empty feature vector is scored like any other
NoFeatures_never(features) == FALSE

\* if not features: return None
NoFeatures(features) == features = <<>>

\* mutant: the model is reloaded on every call
NeedsLoad_always(self) == TRUE

\* if self.model is None: (try to load)
NeedsLoad(self) == self.model = NoneObj

\* confidence = float(max(probabilities) * 100)
Confidence(probabilities) == MaxOf(probabilities) * 100

PredictBody(self, fs, candles, indicators, market_context, current_price, env) ==
    LET load_called == NeedsLoad(self)
        ld == IF load_called THEN load_model(self, fs)
              ELSE [ret |-> TRUE, model |-> self.model, scaler |-> self.scaler]
        base == [exc |-> FALSE, ret |-> NoneDict,
                 model |-> ld.model, scaler |-> ld.scaler,
                 load_called |-> load_called, load_ret |-> ld.ret,
                 features |-> "not built", clf_invoked |-> FALSE,
                 scored_by |-> <<ld.model, ld.scaler>>,
                 failed |-> "none", path |-> "model", env |-> env]
    IN  IF load_called /\ ~ld.ret
        THEN LET r == _predict_with_rules(indicators, current_price)
             IN  [base EXCEPT !.exc = r.exc, !.ret = r.ret, !.path = "rules"]
        ELSE
        LET features == create_all_features(candles, indicators,
                                            market_context, env.features_ok)
            b1 == [base EXCEPT !.features = IF features = <<>> THEN "empty" ELSE "built"]
        IN  IF NoFeatures(features)
            THEN [b1 EXCEPT !.path = "no features",
                            !.failed = IF env.features_ok THEN "none" ELSE "features"]
            ELSE IF ld.scaler # NoneObj /\ ~env.transform_ok
            THEN [b1 EXCEPT !.exc = TRUE, !.failed = "transform"]
            ELSE IF ~env.predict_ok
            THEN [b1 EXCEPT !.exc = TRUE, !.failed = "predict", !.clf_invoked = TRUE]
            ELSE IF ~env.proba_ok
            THEN [b1 EXCEPT !.exc = TRUE, !.failed = "predict_proba",
                            !.clf_invoked = TRUE]
            ELSE
            LET pred_type == _convert_prediction_to_type(env.label)
                confidence == Confidence(env.proba)
                lv == Levels(indicators, current_price, pred_type)
            IN  [b1 EXCEPT !.clf_invoked = TRUE,
                           !.ret = [type |-> pred_type,
                                    confidence |-> confidence,
                                    features_used |-> features,
                                    stop_loss |-> lv[1],
                                    take_profit |-> lv[2],
                                    model_version |-> MODEL_VERSION]]

\* mutant: the except clause gives up instead of falling back to the rules
predict_no_fallback(self, fs, candles, indicators, market_context, current_price, env) ==
    LET b == PredictBody(self, fs, candles, indicators, market_context,
                         current_price, env)
    IN  IF b.exc THEN [b EXCEPT !.exc = FALSE, !.ret = NoneDict] ELSE b

\* try: PredictBody  except Exception: return self._predict_with_rules(...)
predict(self, fs, candles, indicators, market_context, current_price, env) ==
    LET b == PredictBody(self, fs, candles, indicators, market_context,
                         current_price, env)
    IN  IF b.exc
        THEN LET h == _predict_with_rules(indicators, current_price)
             IN  [b EXCEPT !.exc = h.exc, !.ret = h.ret, !.path = "rules"]
        ELSE b

\* no predict call has been made
NoCall == [none |-> TRUE]

\* the record of a predict call, with whether a load had succeeded before it
CallRecord(r, loaded_before) ==
    [k \in DOMAIN r \cup {"loaded_before"} |->
        IF k = "loaded_before" THEN loaded_before ELSE r[k]]

(***************************************************************************)
(* The database.  A table is the sequence of its rows; the candles table   *)
(* is kept in the order of its unique index (symbol, timeframe, open_time),*)
(* the other tables in insertion order.  ids are AUTO_INCREMENT.           *)
(***************************************************************************)
\* a value stored in a DECIMAL(_, places) column
Quantize(x, places) ==
    IF x = None THEN None
    ELSE IF places >= 3 THEN x
    ELSE LET step == IF places = 2 THEN UNIT \div 100
                     ELSE IF places = 1 THEN UNIT \div 10 ELSE UNIT
         IN  ((2 * x + step) \div (2 * step)) * step

NextId(table) == Len(table) + 1

KeyLess(a, b) ==
    \/ a.timeframe # b.timeframe /\ a.timeframe = "1h"
    \/ a.timeframe = b.timeframe /\ a.open_time < b.open_time

\* a candles table without the unique index
DuplicateKey_no_index(table, c) == FALSE

\* Index('unique_candle', 'symbol', 'timeframe', 'open_time', unique=True)
DuplicateKey(table, c) ==
    \E i \in DOMAIN table :
        /\ table[i].symbol = c.symbol
        /\ table[i].timeframe = c.timeframe
        /\ table[i].open_time = c.open_time

InsertCandle(table, row) ==
    SelectSeq(table, LAMBDA x : KeyLess(x, row))
    \o <<row>>
    \o SelectSeq(table, LAMBDA x : ~KeyLess(x, row))

(***************************************************************************)
(* app/schemas/candle.py : CandleCreate                                    *)
(***************************************************************************)
\* the fields in the order of their declaration, which is the order of
\* their validation
FieldOrder ==
    <<"symbol", "timeframe", "open_time", "open", "high", "low", "close",
      "volume", "close_time">>

\* info.data of the validator of a field: the fields validated before it
InfoData(cd, field) ==
    [k \in {FieldOrder[i] : i \in {j \in DOMAIN FieldOrder :
                \A m \in DOMAIN FieldOrder : FieldOrder[m] = field => j < m}} |->
        cd[k]]

\* high_must_be_highest(v, info): FALSE when it raises.  The branch on open
\* only passes.
high_must_be_highest(v, values) ==
    ~("low" \in DOMAIN values /\ v < values.low)

\* close_time_after_open(v, info): FALSE when it raises
close_time_after_open(v, values) ==
    ~("open_time" \in DOMAIN values /\ v <= values.open_time)

\* Field constraints and the two validators
CandleCreateValid(cd) ==
    /\ cd.open_time > 0
    /\ cd.open > 0
    /\ cd.high > 0
    /\ high_must_be_highest(cd.high, InfoData(cd, "high"))
    /\ cd.low > 0
    /\ cd.close > 0
    /\ cd.volume >= 0
    /\ cd.close_time > 0
    /\ close_time_after_open(cd.close_time, InfoData(cd, "close_time"))

(***************************************************************************)
(* app/services/candle_service.py : CandleService                          *)
(***************************************************************************)
\* create_candle: the row that db.add / commit / refresh give back
NewCandleRow(table, cd) ==
    [id |-> NextId(table), symbol |-> cd.symbol, timeframe |-> cd.timeframe,
     open_time |-> cd.open_time, open |-> Quantize(cd.open, 8),
     high |-> Quantize(cd.high, 8), low |-> Quantize(cd.low, 8),
     close |-> Quantize(cd.close, 8), volume |-> Quantize(cd.volume, 8),
     close_time |-> cd.close_time]

\* ORDER BY open_time DESC LIMIT limit, then reversed: the last `limit` rows
\* of the key in ascending open_time
get_historical_candles(table, symbol, timeframe, limit) ==
    LET rows == SelectSeq(table, LAMBDA c : c.symbol = symbol
                                           /\ c.timeframe = timeframe)
        n == Len(rows)
    IN  IF n <= limit THEN rows ELSE SubSeq(rows, n - limit + 1, n)

\* the dicts handed to the indicator calculator and to the predictor
CandlesData(historical) ==
    [i \in DOMAIN historical |->
        [open_time |-> historical[i].open_time, open |-> historical[i].open,
         high |-> historical[i].high, low |-> historical[i].low,
         close |-> historical[i].close, volume |-> historical[i].volume]]

\* the open_time column of a window: within one (symbol, timeframe) the
\* open_time identifies the candle
OpenTimes(historical) == [i \in DOMAIN historical |-> historical[i].open_time]

\* the DECIMAL columns of app/models/indicator.py
IndicatorColumns ==
    [rsi_14 |-> 4, rsi_7 |-> 4, macd |-> 8, macd_signal |-> 8,
     macd_histogram |-> 8, ema_9 |-> 8, ema_20 |-> 8, ema_50 |-> 8,
     ema_100 |-> 8, ema_200 |-> 8, sma_20 |-> 8, sma_50 |-> 8, sma_200 |-> 8,
     bb_upper |-> 8, bb_middle |-> 8, bb_lower |-> 8, bb_width |-> 4,
     atr |-> 8, volume_avg_20 |-> 8, volume_ratio |-> 4, stoch_k |-> 4,
     stoch_d |-> 4, adx |-> 4, cci |-> 4, willr |-> 4, obv |-> 2]

\* calculate_and_save_indicators computing on a history of any length
calculate_and_save_indicators_no_minimum(candles_table, indicators_table, candle, indicators_data) ==
    LET historical == get_historical_candles(candles_table, candle.symbol,
                                             candle.timeframe, MAX_CANDLES_HISTORY)
    IN  IF Len(historical) < 1
        THEN [table |-> indicators_table, row |-> NoneDict, window |-> historical]
        ELSE IF DOMAIN indicators_data = {}
        THEN [table |-> indicators_table, row |-> NoneDict, window |-> historical]
        ELSE LET row == [k \in DOMAIN IndicatorColumns
                              \cup {"id", "candle_id", "symbol", "timeframe"} |->
                            IF k = "id" THEN NextId(indicators_table)
                            ELSE IF k = "candle_id" THEN candle.id
                            ELSE IF k = "symbol" THEN candle.symbol
                            ELSE IF k = "timeframe" THEN candle.timeframe
                            ELSE Quantize(Get(indicators_data, k, None),
                                          IndicatorColumns[k])]
             IN  [table |-> Append(indicators_table, row), row |-> row,
                  window |-> historical]

\* calculate_and_save_indicators.  indicators_data is what
\* indicator_calculator.calculate_all_indicators returns for the window.
\* Returns the new indicators table and the saved row (NoneDict: nothing
\* saved).
calculate_and_save_indicators(candles_table, indicators_table, candle, indicators_data) ==
    LET historical == get_historical_candles(candles_table, candle.symbol,
                                             candle.timeframe, MAX_CANDLES_HISTORY)
    IN  IF Len(historical) < MIN_CANDLES_FOR_INDICATORS
        THEN [table |-> indicators_table, row |-> NoneDict, window |-> historical]
        ELSE IF DOMAIN indicators_data = {}
        THEN [table |-> indicators_table, row |-> NoneDict, window |-> historical]
        ELSE LET row == [k \in DOMAIN IndicatorColumns
                              \cup {"id", "candle_id", "symbol", "timeframe"} |->
                            IF k = "id" THEN NextId(indicators_table)
                            ELSE IF k = "candle_id" THEN candle.id
                            ELSE IF k = "symbol" THEN candle.symbol
                            ELSE IF k = "timeframe" THEN candle.timeframe
                            ELSE Quantize(Get(indicators_data, k, None),
                                          IndicatorColumns[k])]
             IN  [table |-> Append(indicators_table, row), row |-> row,
                  window |-> historical]

(***************************************************************************)
(* app/services/market_context_service.py : MarketContextService           *)
(***************************************************************************)
\* get_and_save_context.  fear_greed is what fetch_fear_greed_index returned
\* (None: the API gave nothing), db_ok is FALSE when add / commit / refresh
\* raises: rollback, return None.
get_and_save_context(contexts_table, fear_greed, db_ok) ==
    IF ~db_ok THEN [table |-> contexts_table, row |-> NoneDict]
    ELSE LET row == [id |-> NextId(contexts_table),
                     btc_dominance |-> Quantize(52500, 4),
                     eth_dominance |-> Quantize(17300, 4),
                     fear_greed_index |-> fear_greed,
                     market_regime |-> "unknown"]
         IN  [table |-> Append(contexts_table, row), row |-> row]

(***************************************************************************)
(* app/routes/candles.py : create_candle, step 4                           *)
(***************************************************************************)
\* float(indicator.x) if indicator.x else None, for the 23 keys of the dict
IndicatorsDictKeys ==
    {"rsi_14", "rsi_7", "macd", "macd_signal", "macd_histogram", "ema_9",
     "ema_20", "ema_50", "ema_200", "sma_20", "bb_upper", "bb_middle",
     "bb_lower", "bb_width", "atr", "volume_avg_20", "volume_ratio",
     "stoch_k", "stoch_d", "adx", "cci", "willr", "obv"}

IndicatorsDict(indicator) ==
    [k \in IndicatorsDictKeys |->
        IF Truthy(indicator[k]) THEN indicator[k] ELSE None]

(***************************************************************************)
(* app/services/prediction_service.py : PredictionService                  *)
(***************************************************************************)
\* The names bound in the module's namespace by its import statements.
ImportedNames ==
    {"Session", "Optional", "Dict", "Decimal", "logger", "time",
     "Prediction", "PredictionTypeEnum", "PredictionStatusEnum",
     "PredictionPriorityEnum", "Candle", "candle_service",
     "market_context_service", "ml_predictor", "settings"}

\* Evaluating a global name that no import bound raises NameError.
NameDefined(name) == name \in ImportedNames

\* mutant: the fraction is not turned into a percentage
Pct_fraction(num, den) == (num * UNIT) \div den

\* (num / den) * 100
Pct(num, den) == (num * 100 * UNIT) \div den

\* mutant: a candidate at the threshold is discarded too
BelowThreshold_inclusive(confidence, threshold) == confidence <= threshold

\* if prediction_data['confidence'] < settings.MIN_CONFIDENCE_THRESHOLD
BelowThreshold(confidence, threshold) == confidence < threshold

\* mutant: the MEDIUM tier starts above 70
Priority_medium_above_70(confidence) ==
    IF confidence >= F(85) THEN "CRITICAL"
    ELSE IF confidence >= F(75) THEN "HIGH"
    ELSE IF confidence > F(70) THEN "MEDIUM"
    ELSE "LOW"

\* mutant: the MEDIUM tier reaches up to 80
Priority_high_from_80(confidence) ==
    IF confidence >= F(85) THEN "CRITICAL"
    ELSE IF confidence >= F(80) THEN "HIGH"
    ELSE IF confidence >= F(70) THEN "MEDIUM"
    ELSE "LOW"

\* Determinar prioridad basada en confianza
Priority(confidence) ==
    IF confidence >= F(85) THEN "CRITICAL"
    ELSE IF confidence >= F(75) THEN "HIGH"
    ELSE IF confidence >= F(70) THEN "MEDIUM"
    ELSE "LOW"

\* the market-context mapping built from the stored row
MarketContextData(context) ==
    [btc_dominance |-> IF Truthy(context.btc_dominance)
                       THEN context.btc_dominance ELSE F(50),
     fear_greed_index |-> IF Truthy(context.fear_greed_index)
                          THEN context.fear_greed_index ELSE F(50),
     market_regime |-> IF context.market_regime = NoneObj THEN "unknown"
                       ELSE context.market_regime]

\* stop_loss_pct, take_profit_pct and risk_reward of a candidate
Percentages(pd, entry_price) ==
    LET stop_loss == pd.stop_loss
        take_profit == pd.take_profit
        has == Truthy(stop_loss) /\ Truthy(take_profit)
        stop_loss_pct ==
            IF has /\ pd.type = "LONG" THEN Pct(entry_price - stop_loss, entry_price)
            ELSE IF has /\ pd.type = "SHORT" THEN Pct(stop_loss - entry_price, entry_price)
            ELSE None
        take_profit_pct ==
            IF has /\ pd.type = "LONG" THEN Pct(take_profit - entry_price, entry_price)
            ELSE IF has /\ pd.type = "SHORT" THEN Pct(entry_price - take_profit, entry_price)
            ELSE None
        risk_reward ==
            IF has /\ Truthy(stop_loss_pct) /\ Truthy(take_profit_pct)
                   /\ stop_loss_pct > 0
            THEN Ratio(take_profit_pct, stop_loss_pct) ELSE None
    IN  [stop_loss_pct |-> stop_loss_pct, take_profit_pct |-> take_profit_pct,
         risk_reward |-> risk_reward]

\* Decimal(str(x)) if x else None, stored in a DECIMAL(_, places) column
OptDecimal(x, places) == IF Truthy(x) THEN Quantize(x, places) ELSE None

\* the Prediction row with the horizon added in seconds
NewPredictionRow_expiry_in_seconds(table, candle, pd, current_price, market_context_id) ==
    LET pc == Percentages(pd, current_price)
    IN  [id |-> NextId(table),
         symbol |-> candle.symbol,
         timeframe |-> candle.timeframe,
         prediction_type |-> pd.type,
         confidence_score |-> Quantize(pd.confidence, 2),
         entry_price |-> Quantize(current_price, 8),
         current_price |-> Quantize(current_price, 8),
         suggested_stop_loss |-> OptDecimal(pd.stop_loss, 8),
         suggested_take_profit |-> OptDecimal(pd.take_profit, 8),
         stop_loss_percentage |-> OptDecimal(pc.stop_loss_pct, 4),
         take_profit_percentage |-> OptDecimal(pc.take_profit_pct, 4),
         risk_reward_ratio |-> OptDecimal(pc.risk_reward, 4),
         position_size_recommended |-> F(5),
         model_version |-> pd.model_version,
         model_type |-> "RandomForest",
         market_context_id |-> market_context_id,
         prediction_time |-> candle.open_time,
         expiration_time |-> candle.open_time + 24 * 3600,
         time_horizon_hours |-> 24,
         status |-> "PENDING",
         priority |-> Priority(pd.confidence)]

\* the Prediction row that db.add / commit / refresh give back
NewPredictionRow(table, candle, pd, current_price, market_context_id) ==
    LET pc == Percentages(pd, current_price)
    IN  [id |-> NextId(table),
         symbol |-> candle.symbol,
         timeframe |-> candle.timeframe,
         prediction_type |-> pd.type,
         confidence_score |-> Quantize(pd.confidence, 2),
         entry_price |-> Quantize(current_price, 8),
         current_price |-> Quantize(current_price, 8),
         suggested_stop_loss |-> OptDecimal(pd.stop_loss, 8),
         suggested_take_profit |-> OptDecimal(pd.take_profit, 8),
         stop_loss_percentage |-> OptDecimal(pc.stop_loss_pct, 4),
         take_profit_percentage |-> OptDecimal(pc.take_profit_pct, 4),
         risk_reward_ratio |-> OptDecimal(pc.risk_reward, 4),
         position_size_recommended |-> F(5),
         model_version |-> pd.model_version,
         model_type |-> "RandomForest",
         market_context_id |-> market_context_id,
         prediction_time |-> candle.open_time,
         expiration_time |-> candle.open_time + 24 * 3600 * 1000,
         time_horizon_hours |-> 24,
         status |-> "PENDING",
         priority |-> Priority(pd.confidence)]

\* mutant: the row is added before the threshold test, so a discarded
\* candidate is stored all the same
GateAndStore_row_added_before_gate(base, db, candle, market_context_id, threshold, r) ==
    IF r.exc
    THEN [base EXCEPT !.model = r.model, !.scaler = r.scaler, !.call = r,
                      !.raised = "Exception", !.outcome = "error"]
    ELSE IF ~DictTruthy(r.ret)
    THEN [base EXCEPT !.model = r.model, !.scaler = r.scaler, !.call = r,
                      !.outcome = "no prediction"]
    ELSE IF BelowThreshold(r.ret.confidence, threshold)
    THEN [base EXCEPT !.model = r.model, !.scaler = r.scaler, !.call = r,
                      !.outcome = "discarded",
                      !.predictions = Append(db.predictions,
                                 NewPredictionRow(db.predictions, candle, r.ret,
                                                  candle.close, market_context_id))]
    ELSE [base EXCEPT !.model = r.model, !.scaler = r.scaler, !.call = r,
                      !.ret = NewPredictionRow(db.predictions, candle, r.ret,
                                               candle.close, market_context_id),
                      !.predictions = Append(db.predictions,
                                 NewPredictionRow(db.predictions, candle, r.ret,
                                                  candle.close, market_context_id))]

\* generate_prediction from line 90 on: r is the record of the predict call
GateAndStore(base, db, candle, market_context_id, threshold, r) ==
    IF r.exc
    THEN [base EXCEPT !.model = r.model, !.scaler = r.scaler, !.call = r,
                      !.raised = "Exception", !.outcome = "error"]
    ELSE IF ~DictTruthy(r.ret)
    THEN [base EXCEPT !.model = r.model, !.scaler = r.scaler, !.call = r,
                      !.outcome = "no prediction"]
    ELSE IF BelowThreshold(r.ret.confidence, threshold)
    THEN [base EXCEPT !.model = r.model, !.scaler = r.scaler, !.call = r,
                      !.outcome = "discarded"]
    ELSE [base EXCEPT !.model = r.model, !.scaler = r.scaler, !.call = r,
                      !.ret = NewPredictionRow(db.predictions, candle, r.ret,
                                               candle.close, market_context_id),
                      !.predictions = Append(db.predictions,
                                 NewPredictionRow(db.predictions, candle, r.ret,
                                                  candle.close, market_context_id))]

\* the market-context mapping of lines 67-79 (reached only if the query of
\* line 70 can be evaluated)
LookupContext(table, market_context_id) ==
    IF Truthy(market_context_id)
          /\ \E i \in DOMAIN table : table[i].id = market_context_id
    THEN MarketContextData(
             table[CHOOSE i \in DOMAIN table : table[i].id = market_context_id])
    ELSE NoneDict

\* generate_prediction.  db holds the three tables it reads and writes.
\* The result carries the returned row ret (NoneDict: None), the predictions
\* table and the predictor's fields after the call, and what the call did:
\* window (the open_times of the candles it read), history (enough candles were found), raised (the exception its except
\* clause caught), call (the record of the predict call, NoCall if predict
\* was not reached) and outcome (the return statement taken).
generate_prediction(self, fs, db, candle, indicators, market_context_id, threshold, env) ==
    IF Len(get_historical_candles(db.candles, candle.symbol, candle.timeframe,
                                  MAX_CANDLES_HISTORY))
          < MIN_CANDLES_FOR_INDICATORS
    THEN [ret |-> NoneDict, predictions |-> db.predictions,
          model |-> self.model, scaler |-> self.scaler,
          history |-> FALSE, raised |-> "none", call |-> NoCall,
          outcome |-> "no history",
          window |-> OpenTimes(get_historical_candles(
                         db.candles, candle.symbol, candle.timeframe,
                         MAX_CANDLES_HISTORY))]
    ELSE IF Truthy(market_context_id) /\ ~NameDefined("MarketContext")
    THEN [ret |-> NoneDict, predictions |-> db.predictions,
          model |-> self.model, scaler |-> self.scaler,
          history |-> TRUE, raised |-> "NameError", call |-> NoCall,
          outcome |-> "error",
          window |-> OpenTimes(get_historical_candles(
                         db.candles, candle.symbol, candle.timeframe,
                         MAX_CANDLES_HISTORY))]
    ELSE GateAndStore(
             [ret |-> NoneDict, predictions |-> db.predictions,
              model |-> self.model, scaler |-> self.scaler,
              history |-> TRUE, raised |-> "none", call |-> NoCall,
              outcome |-> "stored",
              window |-> OpenTimes(get_historical_candles(
                             db.candles, candle.symbol, candle.timeframe,
                             MAX_CANDLES_HISTORY))],
             db, candle, market_context_id, threshold,
             predict(self, fs,
                     CandlesData(get_historical_candles(
                         db.candles, candle.symbol, candle.timeframe,
                         MAX_CANDLES_HISTORY)),
                     indicators,
                     LookupContext(db.market_context, market_context_id),
                     candle.close, env))

(***************************************************************************)
(* State                                                                   *)
(***************************************************************************)
VARIABLES
    model,        \* ml_predictor.model: NoneObj or the loaded classifier
    scaler,       \* ml_predictor.scaler: NoneObj or the loaded scaler
    everLoaded,   \* some load_model call has returned True
    modelFile,    \* model_v1.0.pkl on disk: Absent, Corrupt or its content
    scalerFile,   \* scaler_v1.0.pkl on disk
    started,      \* startup_event has run
    inp,          \* what the outside world feeds the calls of this behaviour
    lastCall,     \* what the most recent predict call did and returned
    db,           \* the tables candles, indicators, market_context, predictions
    settings,     \* app.config.settings
    requests,     \* the POST /candles requests: position and response
    threads       \* ConcSpec: the position of each thread inside predict

predVars == <<model, scaler, everLoaded>>
fileVars == <<modelFile, scalerFile>>
svcVars == <<db, settings, requests>>
vars == <<model, scaler, everLoaded, modelFile, scalerFile, started, inp,
          lastCall, db, settings, requests, threads>>

Self == [model |-> model, scaler |-> scaler]

Files == [model |-> modelFile, scaler |-> scalerFile]

(***************************************************************************)
(* Bounded inputs                                                          *)
(***************************************************************************)
AbsentKey == None - 1     \* the key is not in the mapping

\* The mapping that holds c[k] for every key k with c[k] # AbsentKey
DictOf(c) == [k \in {x \in DOMAIN c : c[x] # AbsentKey} |-> c[k]]

ModelContents == {"clf1", "clf2"}
ScalerContents == {"sc1"}
ModelFileStates == {Absent, Corrupt} \cup ModelContents
ScalerFileStates == {Absent, Corrupt} \cup ScalerContents

\* What the classifier answers: <<model.predict(X)[0], model.predict_proba(X)[0]>>
OkEnv == [features_ok |-> TRUE, transform_ok |-> TRUE, predict_ok |-> TRUE,
          proba_ok |-> TRUE, label |-> 1, proba |-> <<700, 200, 100>>]
Scores == { <<1, <<700, 200, 100>> >>, <<1, <<699, 300, 1>> >>,
            <<1, <<0, 0, 1000>> >>, <<-1, <<200, 750, 50>> >>,
            <<-1, <<100, 50, 850>> >>, <<0, <<340, 330, 330>> >>,
            <<2, <<650, 250, 100>> >> }
ClfOutcomes ==
    {[OkEnv EXCEPT !.label = sc[1], !.proba = sc[2]] : sc \in Scores}
    \cup {[OkEnv EXCEPT !.features_ok = FALSE],
          [OkEnv EXCEPT !.transform_ok = FALSE],
          [OkEnv EXCEPT !.predict_ok = FALSE],
          [OkEnv EXCEPT !.proba_ok = FALSE]}

Window2 == << [open_time |-> 1, open |-> F(100), high |-> F(102), low |-> F(99),
               close |-> F(101), volume |-> F(10)],
              [open_time |-> 2, open |-> F(101), high |-> F(103), low |-> F(100),
               close |-> F(102), volume |-> F(12)] >>

\* predictor states x indicator mappings with nulls and missing keys
PredIndicatorChoices ==
    [rsi_14 : {AbsentKey, None, F(25)},
     macd : {None, 1200},
     macd_signal : {500},
     ema_20 : {F(105)},
     ema_50 : {F(100)},
     atr : {None, F(2)}]
PredInputs ==
    {[candles |-> Window2, indicators |-> DictOf(c),
      market_context |-> NoneDict, current_price |-> F(102)]
        : c \in PredIndicatorChoices}

\* all the orderings of the five rule indicators around their thresholds
RulesIndicatorChoices ==
    [rsi_14 : {AbsentKey, None, F(25), F(30), F(70), F(75)},
     macd : {AbsentKey, None, 1200},
     macd_signal : {AbsentKey, None, 500, 1200},
     ema_20 : {AbsentKey, None, F(105)},
     ema_50 : {AbsentKey, None, F(100), F(105)},
     atr : {None, F(2)}]
RulesInputs ==
    {[candles |-> Window2, indicators |-> DictOf(c),
      market_context |-> NoneDict, current_price |-> F(102)]
        : c \in RulesIndicatorChoices}

(***************************************************************************)
(* Actions of the predictor                                                *)
(***************************************************************************)
\* main.py startup_event: ml_predictor.load_model()
Startup ==
    /\ ~started
    /\ LET ld == load_model(Self, Files)
       IN  /\ model' = ld.model
           /\ scaler' = ld.scaler
           /\ everLoaded' = ld.ret
    /\ started' = TRUE
    /\ UNCHANGED <<modelFile, scalerFile, inp, lastCall, svcVars, threads>>

\* The model files on disk are written by the (external) training job.
Deploy ==
    /\ \E m \in ModelFileStates, s \in ScalerFileStates :
          /\ <<m, s>> # <<modelFile, scalerFile>>
          /\ modelFile' = m
          /\ scalerFile' = s
    /\ UNCHANGED <<model, scaler, everLoaded, started, inp, lastCall, svcVars, threads>>

\* ml_predictor.predict(candles, indicators, market_context, current_price)
CallPredict ==
    /\ started
    /\ \E env \in ClfOutcomes :
          \E r \in {predict(Self, Files, inp.candles, inp.indicators,
                           inp.market_context, inp.current_price, env)} :
              /\ model' = r.model
              /\ scaler' = r.scaler
              /\ everLoaded' = (everLoaded \/ (r.load_called /\ r.load_ret))
              /\ lastCall' = CallRecord(r, everLoaded)
    /\ UNCHANGED <<modelFile, scalerFile, started, inp, svcVars, threads>>

InitPredictor ==
    /\ model = NoneObj
    /\ scaler = NoneObj
    /\ everLoaded = FALSE
    /\ started = FALSE
    /\ lastCall = NoCall

EmptyDb == [candles |-> <<>>, indicators |-> <<>>, market_context |-> <<>>,
            predictions |-> <<>>]
DefaultSettings == [MIN_CONFIDENCE_THRESHOLD |-> DEFAULT_MIN_CONFIDENCE_THRESHOLD]

\* the predictor alone: no database, no requests, no threads
PredictorOnly ==
    /\ db = EmptyDb
    /\ settings = DefaultSettings
    /\ requests = <<>>
    /\ threads = <<>>

\* PredSpec: the predictor in every state, over mappings with nulls
PredInit ==
    /\ InitPredictor
    /\ PredictorOnly
    /\ modelFile \in ModelFileStates
    /\ scalerFile \in ScalerFileStates
    /\ inp \in PredInputs
PredNext == Startup \/ Deploy \/ CallPredict
PredSpec == PredInit /\ [][PredNext]_vars

\* RulesSpec: no classifier can be loaded
RulesInit ==
    /\ InitPredictor
    /\ PredictorOnly
    /\ modelFile \in {Absent, Corrupt}
    /\ scalerFile = Absent
    /\ inp \in RulesInputs
RulesNext == Startup \/ CallPredict
RulesSpec == RulesInit /\ [][RulesNext]_vars

(***************************************************************************)
(* The candle service: POST /candles (app/routes/candles.py create_candle) *)
(* over the database.  A request runs in two segments, split at its only   *)
(* suspension point, the await of get_and_save_context: the event loop     *)
(* runs other requests there and nowhere else.                             *)
(***************************************************************************)
MaxRequests == 2

Symbol == "BTCUSDT"

\* the 49 stored candles of the 1h series, open_time 11 .. 59: one short of
\* the history the indicators need, so nothing else is stored yet
StoredCandle(i) ==
    [id |-> i, symbol |-> Symbol, timeframe |-> "1h", open_time |-> 10 + i,
     open |-> F(100), high |-> F(102), low |-> F(99), close |-> F(101),
     volume |-> F(10), close_time |-> 11 + i]
StoredCandles == [i \in 1..(MIN_CANDLES_FOR_INDICATORS - 1) |-> StoredCandle(i)]

\* the request bodies: the next candle of the series, a late candle of the
\* series, a candle of a series without history, a body the schema rejects
CandlePayload(timeframe, open_time, close_time) ==
    [symbol |-> Symbol, timeframe |-> timeframe, open_time |-> open_time,
     open |-> F(101), high |-> F(103), low |-> F(100), close |-> F(102),
     volume |-> F(12), close_time |-> close_time]
\* and the next candle of the series with its high below its low and open
CandlePayloads ==
    {CandlePayload("1h", 60, 61), CandlePayload("1h", 5, 6),
     CandlePayload("4h", 60, 64), CandlePayload("1h", 61, 61),
     [CandlePayload("1h", 60, 61) EXCEPT !.high = F(99)]}

\* what indicator_calculator.calculate_all_indicators returns for a window
EngineBase ==
    [rsi_14 |-> F(25), rsi_7 |-> F(28), macd |-> 1200, macd_signal |-> 500,
     macd_histogram |-> 700, ema_9 |-> F(106), ema_20 |-> F(105),
     ema_50 |-> F(100), ema_100 |-> F(99), ema_200 |-> F(95),
     sma_20 |-> F(101), sma_50 |-> F(100), sma_200 |-> None,
     bb_upper |-> F(104), bb_middle |-> F(101), bb_lower |-> F(98),
     bb_width |-> 5940, atr |-> F(2), volume_avg_20 |-> F(10),
     volume_ratio |-> 1200, stoch_k |-> F(80), stoch_d |-> F(75),
     adx |-> None, cci |-> F(110), willr |-> 0 - F(20), obv |-> F(320)]
EngineFailed == [x \in {} |-> None]     \* the calculator's except: {}
EngineOutputs ==
    {EngineBase,
     [EngineBase EXCEPT !.rsi_14 = F(50)],
     [EngineBase EXCEPT !.macd = 500, !.macd_histogram = 0, !.ema_20 = F(100)],
     [EngineBase EXCEPT !.rsi_14 = F(75), !.macd = 200,
                        !.macd_histogram = 0 - 300, !.ema_20 = F(98)],
     [EngineBase EXCEPT !.rsi_14 = F(50), !.macd = 500, !.macd_histogram = 0],
     [EngineBase EXCEPT !.macd = 500, !.macd_histogram = 0],
     [EngineBase EXCEPT !.macd = 0, !.macd_histogram = 0 - 500],
     [EngineBase EXCEPT !.atr = 1],
     [EngineBase EXCEPT !.atr = 4],
     [EngineBase EXCEPT !.atr = 100],
     [EngineBase EXCEPT !.rsi_14 = F(75), !.macd = 200,
                        !.macd_histogram = 0 - 300, !.ema_20 = F(98),
                        !.atr = 4],
     EngineFailed}

Thresholds == {DEFAULT_MIN_CONFIDENCE_THRESHOLD, F(65)}

\* Without a model file every engine output is scored by the rules; with
\* one, every classifier outcome over two of the engine outputs.
Scenarios ==
    {[files |-> <<Absent, Absent>>, engine |-> e, env |-> OkEnv]
        : e \in EngineOutputs}
    \cup {[files |-> <<"clf1", "sc1">>, engine |-> e, env |-> env]
            : e \in {EngineBase, [EngineBase EXCEPT !.macd = 0,
                                                    !.macd_histogram = 0 - 500]},
              env \in ClfOutcomes}

IdleRequest ==
    [pc |-> "idle", status |-> 0, body |-> NoneDict, candle |-> NoneDict,
     indicator |-> NoneDict, window |-> <<>>, args |-> NoneDict,
     gp |-> NoneDict, response |-> NoneDict]

\* the "prediction" entry of the response body
ResponsePrediction(prediction) ==
    IF IsNoneDict(prediction) THEN NoneDict
    ELSE [id |-> prediction.id, type |-> prediction.prediction_type,
          confidence |-> prediction.confidence_score,
          entry_price |-> prediction.entry_price,
          stop_loss |-> prediction.suggested_stop_loss,
          take_profit |-> prediction.suggested_take_profit,
          risk_reward |-> prediction.risk_reward_ratio,
          model_version |-> prediction.model_version,
          expires_at |-> prediction.expiration_time]

Finish(r, status, fields) ==
    [k \in DOMAIN IdleRequest |->
        IF k = "pc" THEN "done"
        ELSE IF k = "status" THEN status
        ELSE IF k \in DOMAIN fields THEN fields[k]
        ELSE requests[r][k]]

\* create_candle up to the await: validation of the body, the insert (409
\* on the unique index), calculate_and_save_indicators, and the early
\* response when no indicator row was saved.
Submit(r) ==
    /\ started
    /\ requests[r].pc = "idle"
    /\ r > 1 => requests[r - 1].pc # "idle"
    /\ \E candle_data \in CandlePayloads :
          IF ~CandleCreateValid(candle_data)
          THEN /\ requests' = [requests EXCEPT
                                 ![r] = Finish(r, 422, [body |-> candle_data])]
               /\ db' = db
          ELSE IF DuplicateKey(db.candles, candle_data)
          THEN /\ requests' = [requests EXCEPT
                                 ![r] = Finish(r, 409, [body |-> candle_data])]
               /\ db' = db
          ELSE
          \E candle \in {NewCandleRow(db.candles, candle_data)} :
          \E saved \in {calculate_and_save_indicators(
                            InsertCandle(db.candles, candle), db.indicators,
                            candle, inp.engine)} :
              /\ db' = [db EXCEPT !.candles = InsertCandle(db.candles, candle),
                                  !.indicators = saved.table]
              /\ requests' = [requests EXCEPT ![r] =
                    IF IsNoneDict(saved.row)
                    THEN Finish(r, 201,
                           [body |-> candle_data, candle |-> candle,
                            window |-> OpenTimes(saved.window),
                            response |-> [candle_id |-> candle.id,
                                          indicators_calculated |-> FALSE,
                                          prediction |-> NoneDict]])
                    ELSE [requests[r] EXCEPT !.pc = "await_context",
                                             !.body = candle_data,
                                             !.candle = candle,
                                             !.indicator = saved.row,
                                             !.window = OpenTimes(saved.window)]]
    /\ UNCHANGED <<predVars, fileVars, started, inp, lastCall, settings, threads>>

\* create_candle from the await on: the market context is saved (or not),
\* the indicator row becomes the indicators mapping, generate_prediction
\* runs, the response is built.
Resume(r) ==
    /\ requests[r].pc = "await_context"
    /\ \E fear_greed \in {None, F(25)}, db_ok \in BOOLEAN :
       (db_ok \/ fear_greed = None) /\
       \E ctx \in {get_and_save_context(db.market_context, fear_greed, db_ok)} :
       \E args \in {[self |-> Self,
                     candles_seen |-> Len(db.candles),
                     indicators |-> IndicatorsDict(requests[r].indicator),
                     market_context_id |-> IF IsNoneDict(ctx.row) THEN None
                                           ELSE ctx.row.id]} :
       \E gp \in {generate_prediction(
                     Self, Files, [db EXCEPT !.market_context = ctx.table],
                     requests[r].candle, args.indicators,
                     args.market_context_id,
                     settings.MIN_CONFIDENCE_THRESHOLD, inp.env)} :
           /\ db' = [db EXCEPT !.market_context = ctx.table,
                               !.predictions = gp.predictions]
           /\ model' = gp.model
           /\ scaler' = gp.scaler
           /\ everLoaded' = (everLoaded \/ (~IsNoneDict(gp.call)
                                            /\ gp.call.load_called
                                            /\ gp.call.load_ret))
           /\ lastCall' = IF IsNoneDict(gp.call) THEN lastCall
                          ELSE CallRecord(gp.call, everLoaded)
           /\ requests' = [requests EXCEPT ![r] =
                 Finish(r, 201,
                   [args |-> args, gp |-> gp,
                    response |-> [candle_id |-> requests[r].candle.id,
                                  indicators_calculated |-> TRUE,
                                  prediction |-> ResponsePrediction(gp.ret)]])]
    /\ UNCHANGED <<fileVars, started, inp, settings, threads>>

Init ==
    /\ InitPredictor
    /\ \E sc \in Scenarios :
          /\ modelFile = sc.files[1]
          /\ scalerFile = sc.files[2]
          /\ inp = [engine |-> sc.engine, env |-> sc.env]
    /\ db = [EmptyDb EXCEPT !.candles = StoredCandles]
    /\ settings \in [MIN_CONFIDENCE_THRESHOLD : Thresholds]
    /\ requests = [r \in 1..MaxRequests |-> IdleRequest]
    /\ threads = <<>>

Next ==
    \/ Startup
    \/ \E r \in 1..MaxRequests : Submit(r)
    \/ \E r \in 1..MaxRequests : Resume(r)

Spec == Init /\ [][Next]_vars

(***************************************************************************)
(* ConcSpec: predict called from several threads at once.  MLPredictor has *)
(* no lock: a thread can be preempted between any two of its statements,   *)
(* and joblib.load releases the interpreter while it reads the file.       *)
(* A thread's position: "idle", "exists" (in load_model, before the test   *)
(* of os.path.exists), "load_model" (before self.model = joblib.load),     *)
(* "load_scaler" (before the scaler is loaded), "score" (load_model        *)
(* returned True or was not needed), "rules" (load_model returned False),  *)
(* "done".                                                                 *)
(***************************************************************************)
NumThreads == 2

Threads == DOMAIN threads
IdleThread == [pc |-> "idle", assigned |-> 0, used |-> NoneObj]

\* predict, line 75: if self.model is None
Enter(t) ==
    /\ started
    /\ threads[t].pc = "idle"
    /\ threads' = [threads EXCEPT ![t].pc =
                      IF NeedsLoad(Self) THEN "exists" ELSE "score"]
    /\ UNCHANGED <<predVars, fileVars, started, inp, lastCall, svcVars>>

\* load_model, line 38: if not os.path.exists(model_path): return False
LoadExists(t) ==
    /\ threads[t].pc = "exists"
    /\ threads' = [threads EXCEPT ![t].pc =
                      IF modelFile = Absent THEN "rules" ELSE "load_model"]
    /\ UNCHANGED <<predVars, fileVars, started, inp, lastCall, svcVars>>

\* load_model, line 42: self.model = joblib.load(model_path)
LoadModel(t) ==
    /\ threads[t].pc = "load_model"
    /\ IF modelFile \in {Absent, Corrupt}
       THEN /\ threads' = [threads EXCEPT ![t].pc = "rules"]
            /\ model' = model
       ELSE /\ threads' = [threads EXCEPT ![t].pc = "load_scaler",
                                          ![t].assigned = @ + 1]
            /\ model' = modelFile
    /\ UNCHANGED <<scaler, everLoaded, fileVars, started, inp, lastCall, svcVars>>

\* load_model, lines 44-49: the scaler, then return True
LoadScaler(t) ==
    /\ threads[t].pc = "load_scaler"
    /\ IF scalerFile = Corrupt
       THEN /\ threads' = [threads EXCEPT ![t].pc = "rules"]
            /\ UNCHANGED <<scaler, everLoaded>>
       ELSE /\ threads' = [threads EXCEPT ![t].pc = "score"]
            /\ scaler' = IF scalerFile = Absent THEN scaler ELSE scalerFile
            /\ everLoaded' = TRUE
    /\ UNCHANGED <<model, fileVars, started, inp, lastCall, svcVars>>

\* predict, lines 81-128, with the classifier that is in the slot now
Score(t) ==
    /\ threads[t].pc = "score"
    /\ \E r \in {predict(Self, Files, inp.candles, inp.indicators,
                         inp.market_context, inp.current_price, OkEnv)} :
          /\ lastCall' = CallRecord(r, everLoaded)
          /\ threads' = [threads EXCEPT ![t].pc = "done",
                                        ![t].used = r.scored_by[1]]
    /\ UNCHANGED <<predVars, fileVars, started, inp, svcVars>>

\* predict, lines 77-79: return self._predict_with_rules(...)
Rules(t) ==
    /\ threads[t].pc = "rules"
    /\ threads' = [threads EXCEPT ![t].pc = "done"]
    /\ UNCHANGED <<predVars, fileVars, started, inp, lastCall, svcVars>>

ConcInit ==
    /\ InitPredictor
    /\ modelFile \in ModelFileStates
    /\ scalerFile \in ScalerFileStates
    /\ inp = [candles |-> Window2, indicators |-> EngineBase,
              market_context |-> NoneDict, current_price |-> F(102)]
    /\ db = EmptyDb
    /\ settings = DefaultSettings
    /\ requests = <<>>
    /\ threads = [t \in 1..NumThreads |-> IdleThread]

ConcNext ==
    \/ Startup
    \/ Deploy
    \/ \E t \in Threads : Enter(t)
    \/ \E t \in Threads : LoadExists(t)
    \/ \E t \in Threads : LoadModel(t)
    \/ \E t \in Threads : LoadScaler(t)
    \/ \E t \in Threads : Score(t)
    \/ \E t \in Threads : Rules(t)

ConcSpec == ConcInit /\ [][ConcNext]_vars

(***************************************************************************)
(* Properties                                                              *)
(***************************************************************************)
Called == lastCall # NoCall
RulesResult == _predict_with_rules(inp.indicators, inp.current_price).ret

\* C1: predict never surfaces an exception to its caller, whatever the
\* predictor's state, the outcome of the load, of the feature construction
\* and of the classifier's and scaler's calls, and whatever the indicator
\* mapping holds (null values included): the call ends with a return value,
\* a result or None.
C1_PredictNeverRaises == Called => ~lastCall.exc

\* C1 witness: the classifier's predict raised, the rule-based fallback met a
\* null indicator, and the call still returned (None).
C1_Witness ==
    /\ Called
    /\ lastCall.failed = "predict"
    /\ lastCall.ret = NoneDict
    /\ ~lastCall.exc

\* C2 as claimed: after any failure in feature construction or in model
\* invocation predict returns the rule-based result for the same indicators
\* and price.
C2_AnyFailureFallsBackToRules ==
    (Called /\ lastCall.failed # "none") => lastCall.ret = RulesResult

\* C2 amended: a failure of the scaler's transform, of predict or of
\* predict_proba makes predict return the rule-based result for the same
\* indicators and price (model_version 'rules-based' when there is one); a
\* failure in feature construction makes predict return None instead.
C2_InvocationFailureFallsBackToRules ==
    Called =>
        /\ lastCall.failed \in {"transform", "predict", "predict_proba"} =>
              /\ lastCall.ret = RulesResult
              /\ lastCall.ret # NoneDict =>
                    lastCall.ret.model_version = "rules-based"
        /\ lastCall.failed = "features" => lastCall.ret = NoneDict

\* C2 witness: the scaler's transform raised and a rule-based result came back
C2_Witness ==
    /\ Called
    /\ lastCall.failed = "transform"
    /\ lastCall.ret # NoneDict
    /\ lastCall.ret.model_version = "rules-based"

\* C5: once a load_model call has returned True, the model and scaler slots
\* never change again, and no later predict call loads: it works with the
\* cached classifier and scaler.
C5_LoadedOnceAndCached ==
    [][everLoaded =>
          /\ model' = model
          /\ scaler' = scaler
          /\ (lastCall' # NoCall /\ lastCall'.loaded_before) =>
                /\ ~lastCall'.load_called
                /\ lastCall'.scored_by = <<model, scaler>>]_vars

\* C5 witness: a predict call scored with the cached classifier, without a
\* load, while a different model file is on disk.
C5_Witness ==
    /\ everLoaded
    /\ Called
    /\ lastCall.loaded_before
    /\ lastCall.clf_invoked
    /\ ~lastCall.load_called
    /\ lastCall.scored_by[1] = model
    /\ modelFile # model

\* The score of section 4.3, from a mapping that holds all five indicators
C6_Score(i) ==
    (IF i.rsi_14 < F(30) THEN 2 ELSE 0) + (IF i.rsi_14 > F(70) THEN -2 ELSE 0)
    + (IF i.macd > i.macd_signal THEN 1 ELSE 0)
    + (IF i.macd < i.macd_signal THEN -1 ELSE 0)
    + (IF i.ema_20 > i.ema_50 THEN 1 ELSE 0)
    + (IF i.ema_20 < i.ema_50 THEN -1 ELSE 0)

C6_Numeric ==
    \A k \in {"rsi_14", "macd", "macd_signal", "ema_20", "ema_50"} :
        k \in DOMAIN inp.indicators /\ inp.indicators[k] # None

C6_Example ==
    /\ C6_Numeric
    /\ inp.indicators.rsi_14 = F(25)
    /\ inp.indicators.macd = 1200
    /\ inp.indicators.macd_signal = 500
    /\ inp.indicators.ema_20 = F(105)
    /\ inp.indicators.ema_50 = F(100)

C7_ModelBackedResult ==
    (Called /\ lastCall.path = "model") =>
        LET r == lastCall.ret
            label == lastCall.env.label
            p == lastCall.env.proba
        IN  /\ r # NoneDict
            /\ label = 1 => r.type = "LONG"
            /\ label = -1 => r.type = "SHORT"
            /\ label \notin {1, -1} => r.type = "NEUTRAL"
            /\ \E i \in DOMAIN p :
                  /\ r.confidence = 100 * p[i]
                  /\ \A j \in DOMAIN p : p[j] <= p[i]
            /\ r.confidence >= 0
            /\ r.confidence <= F(100)

\* C7 witness: the classifier answered a label other than +1 and -1
C7_Witness ==
    /\ Called
    /\ lastCall.path = "model"
    /\ lastCall.env.label = 2
    /\ lastCall.ret.type = "NEUTRAL"
    /\ lastCall.ret.confidence = F(65)

(***************************************************************************)
(* Properties of the candle service                                        *)
(***************************************************************************)
Requests == DOMAIN requests
\* request r went through generate_prediction
Generated(r) == requests[r].pc = "done" /\ ~IsNoneDict(requests[r].gp)
\* request r went through predict
Predicted(r) == Generated(r) /\ ~IsNoneDict(requests[r].gp.call)
\* the stored predictions of the candle of request r
PredictionsFor(r) ==
    {i \in DOMAIN db.predictions :
        /\ db.predictions[i].symbol = requests[r].candle.symbol
        /\ db.predictions[i].timeframe = requests[r].candle.timeframe
        /\ db.predictions[i].prediction_time = requests[r].candle.open_time}

\* C3: when create_all_features yields no features, predict returns None
\* without invoking the classifier, and generate_prediction returns nothing
\* and stores no prediction for that candle.
C3_NoFeaturesNoSignal ==
    \A r \in Requests :
        (Predicted(r) /\ requests[r].gp.call.features = "empty") =>
            /\ IsNoneDict(requests[r].gp.call.ret)
            /\ ~requests[r].gp.call.exc
            /\ ~requests[r].gp.call.clf_invoked
            /\ IsNoneDict(requests[r].gp.ret)
            /\ PredictionsFor(r) = {}
            /\ IsNoneDict(requests[r].response.prediction)

\* C3 witness: a request whose feature build failed with a classifier loaded
C3_Witness ==
    \E r \in Requests :
        /\ Predicted(r)
        /\ requests[r].gp.call.features = "empty"
        /\ requests[r].gp.call.scored_by[1] # NoneObj
        /\ requests[r].status = 201

\* C8: no stored and no returned signal has a confidence below the
\* configured threshold; a candidate below it is discarded whatever its
\* direction, a candidate exactly at it is not discarded.
C8_GateDiscardsBelowThreshold ==
    /\ \A i \in DOMAIN db.predictions :
          db.predictions[i].confidence_score >= settings.MIN_CONFIDENCE_THRESHOLD
    /\ \A r \in Requests :
          requests[r].pc = "done" /\ ~IsNoneDict(requests[r].response)
          /\ ~IsNoneDict(requests[r].response.prediction)
              => requests[r].response.prediction.confidence
                     >= settings.MIN_CONFIDENCE_THRESHOLD
    /\ \A r \in Requests :
          (Predicted(r) /\ DictTruthy(requests[r].gp.call.ret)) =>
              LET confidence == requests[r].gp.call.ret.confidence
              IN  /\ confidence < settings.MIN_CONFIDENCE_THRESHOLD =>
                        /\ requests[r].gp.outcome = "discarded"
                        /\ IsNoneDict(requests[r].gp.ret)
                        /\ PredictionsFor(r) = {}
                  /\ confidence = settings.MIN_CONFIDENCE_THRESHOLD =>
                        requests[r].gp.outcome # "discarded"

\* C8 witness: a candidate exactly at the threshold went through the gate
\* and was stored
C8_Witness ==
    \E r \in Requests :
        /\ Predicted(r)
        /\ DictTruthy(requests[r].gp.call.ret)
        /\ requests[r].gp.call.ret.confidence = settings.MIN_CONFIDENCE_THRESHOLD
        /\ PredictionsFor(r) # {}

\* what the predictor returns for the arguments generate_prediction was
\* called with in request r
C9_Candidate(r) ==
    LET a == requests[r].args
        table == SelectSeq(db.candles, LAMBDA c : c.id <= a.candles_seen)
        historical == get_historical_candles(table, requests[r].candle.symbol,
                          requests[r].candle.timeframe, MAX_CANDLES_HISTORY)
    IN  predict(a.self, Files, CandlesData(historical), a.indicators,
                LookupContext(db.market_context, a.market_context_id),
                requests[r].candle.close, inp.env).ret

\* a fully populated Signal: every column the table declares NOT NULL
FullyPopulated(p) ==
    /\ p.symbol = Symbol
    /\ p.timeframe \in {"1h", "4h"}
    /\ p.prediction_type \in {"LONG", "SHORT", "NEUTRAL"}
    /\ p.confidence_score # None
    /\ p.entry_price # None
    /\ p.model_version \in {MODEL_VERSION, "rules-based"}
    /\ p.prediction_time # None
    /\ p.status = "PENDING"

\* C9: for every candle with sufficient history for which the predictor
\* returns a candidate with confidence >= the threshold, generate_prediction
\* stores and returns a fully populated PENDING signal, with and without a
\* market_context_id.
C9_ConfidentCandidateStored ==
    \A r \in Requests :
        (/\ Generated(r)
         /\ requests[r].gp.history
         /\ DictTruthy(C9_Candidate(r))
         /\ C9_Candidate(r).confidence >= settings.MIN_CONFIDENCE_THRESHOLD) =>
            /\ ~IsNoneDict(requests[r].gp.ret)
            /\ FullyPopulated(requests[r].gp.ret)
            /\ \E i \in PredictionsFor(r) :
                  db.predictions[i] = requests[r].gp.ret

\* C9 without a market context id: the part of C9 the code keeps
C9_StoredWithoutContext ==
    \A r \in Requests :
        (/\ Generated(r)
         /\ requests[r].gp.history
         /\ requests[r].args.market_context_id = None
         /\ DictTruthy(C9_Candidate(r))
         /\ C9_Candidate(r).confidence >= settings.MIN_CONFIDENCE_THRESHOLD) =>
            /\ ~IsNoneDict(requests[r].gp.ret)
            /\ FullyPopulated(requests[r].gp.ret)
            /\ \E i \in PredictionsFor(r) :
                  db.predictions[i] = requests[r].gp.ret

Loading(t) == threads[t].pc \in {"load_model", "load_scaler"}
RECURSIVE SumOver(_, _)
SumOver(field, n) ==
    IF n = 0 THEN 0 ELSE threads[n][field] + SumOver(field, n - 1)

\* C4: among concurrent predict calls at most one load of the classifier is
\* in progress at any time, the model slot is assigned at most once, and all
\* the callers that score with a classifier score with the same one.
C4_SingleFlightLoad ==
    /\ Cardinality({t \in Threads : Loading(t)}) <= 1
    /\ SumOver("assigned", Len(threads)) <= 1
    /\ \A t, u \in Threads :
          (threads[t].used # NoneObj /\ threads[u].used # NoneObj)
              => threads[t].used = threads[u].used

(***************************************************************************)
(* LevelsSpec: the risk levels of predictor.py lines 106-111 and           *)
(* _calculate_levels, over entry prices with and without sub-cent digits   *)
(* and ATR values from far below the rounding step to whole units.         *)
(***************************************************************************)
LevelPrices == {F(100), F(102), 100004, 100006, 12345}
LevelAtrs == {AbsentKey, None, 0, 1, 3, 4, 5, 7, 20, 1234, F(2)}
LevelInputs ==
    [current_price : LevelPrices, pred_type : {"LONG", "SHORT", "NEUTRAL"},
     atr : LevelAtrs]

LevelsInit ==
    /\ InitPredictor
    /\ PredictorOnly
    /\ modelFile = Absent
    /\ scalerFile = Absent
    /\ inp \in LevelInputs
    /\ lastCall = NoCall

\* stop_loss, take_profit of predict for the drawn price, direction and ATR
CallLevels ==
    /\ lastCall = NoCall
    /\ lastCall' = [ret |-> Levels(DictOf([atr |-> inp.atr]),
                                   inp.current_price, inp.pred_type)]
    /\ UNCHANGED <<predVars, fileVars, started, inp, svcVars, threads>>

LevelsNext == CallLevels
LevelsSpec == LevelsInit /\ [][LevelsNext]_vars

\* the levels were computed and are defined
LevelsDefined == lastCall # NoCall /\ lastCall.ret # <<None, None>>

\* v is a whole number of cents, at most half a cent from x4 / 4
IsRounded2(v, x4) ==
    /\ v % (UNIT \div 100) = 0
    /\ Abs(4 * v - x4) <= 2 * (UNIT \div 100)

\* C11: rounded to 2 decimals, LONG gives stop = entry - 1.5 ATR and target
\* = entry + 1.5 (entry - stop) = entry + 2.25 ATR; SHORT gives stop = entry
\* + 1.5 ATR and target = entry - 2.25 ATR; any other direction gives the
\* band entry -+ 1.5 ATR.  (All values times 4, so that they are integers.)
C11_LevelFormulas ==
    LevelsDefined =>
        LET e4 == 4 * inp.current_price
            a == inp.atr
            stop == lastCall.ret[1]
            target == lastCall.ret[2]
        IN  /\ inp.pred_type = "LONG" =>
                  IsRounded2(stop, e4 - 6 * a) /\ IsRounded2(target, e4 + 9 * a)
            /\ inp.pred_type = "SHORT" =>
                  IsRounded2(stop, e4 + 6 * a) /\ IsRounded2(target, e4 - 9 * a)
            /\ inp.pred_type = "NEUTRAL" =>
                  IsRounded2(stop, e4 - 6 * a) /\ IsRounded2(target, e4 + 6 * a)

\* C11 witness: a SHORT whose two levels both had to be rounded
C11_Witness ==
    /\ LevelsDefined
    /\ inp.pred_type = "SHORT"
    /\ (4 * inp.current_price + 6 * inp.atr) % (4 * (UNIT \div 100)) # 0
    /\ (4 * inp.current_price - 9 * inp.atr) % (4 * (UNIT \div 100)) # 0
    /\ lastCall.ret[1] > inp.current_price

\* C12: whenever the levels are defined, stop < entry < target for LONG and
\* target < entry < stop for SHORT, for every positive price and ATR.
C12_LevelsOrdered ==
    LevelsDefined =>
        /\ inp.pred_type = "LONG" =>
              lastCall.ret[1] < inp.current_price
              /\ inp.current_price < lastCall.ret[2]
        /\ inp.pred_type = "SHORT" =>
              lastCall.ret[2] < inp.current_price
              /\ inp.current_price < lastCall.ret[1]

\* C12 for an ATR of at least one cent and a price in whole cents: the part
\* of C12 the code keeps
C12_OrderedFromOneCent ==
    (LevelsDefined /\ inp.atr >= UNIT \div 100
                   /\ inp.current_price % (UNIT \div 100) = 0) =>
        /\ inp.pred_type = "LONG" =>
              lastCall.ret[1] < inp.current_price
              /\ inp.current_price < lastCall.ret[2]
        /\ inp.pred_type = "SHORT" =>
              lastCall.ret[2] < inp.current_price
              /\ inp.current_price < lastCall.ret[1]

(***************************************************************************)
(* Risk/reward of the stored signals (Spec)                                *)
(***************************************************************************)
\* q is x / y cut to a whole number of UNIT steps (y > 0)
IsQuotient(q, x, y) == q * y <= x * UNIT /\ x * UNIT < (q + 1) * y

\* the exact ratio num / den lies between lo_n / lo_d and hi_n / hi_d
RatioBetween(num, den, lo_n, lo_d, hi_n, hi_d) ==
    /\ lo_n * den <= num * lo_d
    /\ hi_d > 0 => num * hi_d <= hi_n * den

\* C13: for every stored LONG or SHORT signal with defined levels, the
\* percentages are the distances of the rounded levels from the entry in
\* percent of the entry, risk_reward is take_profit_pct / stop_loss_pct when
\* stop_loss_pct > 0 and undefined otherwise, and the ratio of the two
\* distances is 1.5 up to half a cent of rounding in each level: between
\* (2.25 ATR - 0.005) / (1.5 ATR + 0.005) and
\* (2.25 ATR + 0.005) / (1.5 ATR - 0.005).
C13_RiskRewardWithinRounding ==
    \A r \in Requests :
        (/\ Generated(r)
         /\ ~IsNoneDict(requests[r].gp.ret)
         /\ requests[r].gp.ret.prediction_type \in {"LONG", "SHORT"}
         /\ requests[r].gp.ret.suggested_stop_loss # None
         /\ requests[r].gp.ret.suggested_take_profit # None) =>
            LET p == requests[r].gp.ret
                atr == requests[r].args.indicators.atr
                entry == p.entry_price
                risk == IF p.prediction_type = "LONG"
                        THEN entry - p.suggested_stop_loss
                        ELSE p.suggested_stop_loss - entry
                reward == IF p.prediction_type = "LONG"
                          THEN p.suggested_take_profit - entry
                          ELSE entry - p.suggested_take_profit
                half4 == 2 * (UNIT \div 100)
            IN  /\ risk > 0 =>
                      /\ IsQuotient(p.stop_loss_percentage, 100 * risk, entry)
                      /\ IsQuotient(p.take_profit_percentage, 100 * reward, entry)
                      /\ IsQuotient(p.risk_reward_ratio,
                                    p.take_profit_percentage,
                                    p.stop_loss_percentage)
                      /\ RatioBetween(reward, risk,
                                      9 * atr - half4, 6 * atr + half4,
                                      9 * atr + half4, 6 * atr - half4)
                /\ risk <= 0 => p.risk_reward_ratio = None

\* C13 witness: a stored SHORT whose ATR is below one cent, with a
\* risk/reward away from 1.5
C13_Witness ==
    \E r \in Requests :
        /\ Generated(r)
        /\ ~IsNoneDict(requests[r].gp.ret)
        /\ requests[r].gp.ret.prediction_type = "SHORT"
        /\ requests[r].args.indicators.atr < UNIT \div 100
        /\ requests[r].gp.ret.risk_reward_ratio # None
        /\ requests[r].gp.ret.risk_reward_ratio < UNIT + UNIT \div 4

(***************************************************************************)
(* FeatureSpec: create_all_features over candle windows of 0, 1, 2 and 6   *)
(* candles, indicator mappings whose momentum entries are missing, null or *)
(* valued, and market contexts that are absent, empty, built by            *)
(* generate_prediction from a stored row, or passed with missing keys or   *)
(* nulls.                                                                  *)
(***************************************************************************)
WindowOf(n) ==
    [i \in 1..n |-> [open_time |-> i, open |-> F(100) + i * UNIT,
                     high |-> F(103) + i * UNIT, low |-> F(99) + i * UNIT,
                     close |-> F(101) + i * UNIT, volume |-> F(10) + i * i * UNIT]]
FeatureWindows == {WindowOf(0), WindowOf(1), WindowOf(2), WindowOf(6)}

MomentumChoices ==
    [rsi_14 : {AbsentKey, None, F(25)},
     rsi_7 : {AbsentKey, None},
     macd_histogram : {AbsentKey, None, 700},
     stoch_k : {AbsentKey, None, F(80)},
     stoch_d : {None, F(75)},
     adx : {AbsentKey, None},
     cci : {AbsentKey, None, F(110)},
     ema_20 : {F(105)}, ema_50 : {F(100)}, atr : {F(2)}]

\* the rows of the market_context table
ContextRows ==
    [id : {1}, btc_dominance : {None, 52500}, fear_greed_index : {None, 0, F(25)},
     market_regime : {NoneObj, "bull", "bear", "sideways", "volatile", "unknown"}]

\* market contexts handed to create_all_features, with the stored row they
\* were built from (NoneDict: not built from a row)
FeatureContexts ==
    {[market_context |-> NoneDict, context_row |-> NoneDict],
     [market_context |-> [x \in {} |-> None], context_row |-> NoneDict],
     [market_context |-> [market_regime |-> "bull"], context_row |-> NoneDict],
     [market_context |-> [btc_dominance |-> 61000], context_row |-> NoneDict],
     [market_context |-> [btc_dominance |-> None, fear_greed_index |-> None,
                          market_regime |-> "bear"],
      context_row |-> NoneDict]}
    \cup {[market_context |-> MarketContextData(row), context_row |-> row]
            : row \in ContextRows}

\* the inputs of the three cross features: missing, null, zero, valued
TrendChoices ==
    [ema_20 : {AbsentKey, None, F(105)},
     ema_50 : {None, F(100), F(110)},
     ema_200 : {AbsentKey, F(95), F(110)},
     macd : {AbsentKey, None, 0, 500, 0 - 500},
     macd_signal : {None, 0, 300, 500},
     atr : {F(2)}]

FeatureInputs ==
    {[candles |-> w, indicators |-> DictOf(c), market_context |-> NoneDict,
      context_row |-> NoneDict] : w \in FeatureWindows, c \in MomentumChoices}
    \cup {[candles |-> WindowOf(2), indicators |-> DictOf(c),
           market_context |-> NoneDict, context_row |-> NoneDict]
            : c \in TrendChoices}
    \cup {[candles |-> WindowOf(2), indicators |-> EngineBase,
           market_context |-> x.market_context, context_row |-> x.context_row]
            : x \in FeatureContexts}

FeatureInit ==
    /\ InitPredictor
    /\ PredictorOnly
    /\ modelFile = Absent
    /\ scalerFile = Absent
    /\ inp \in FeatureInputs
    /\ lastCall = NoCall

\* feature_engineer.create_all_features(candles, indicators, market_context)
CallFeatures ==
    /\ lastCall = NoCall
    /\ lastCall' = [ret |-> create_all_features(inp.candles, inp.indicators,
                                                inp.market_context, TRUE)]
    /\ UNCHANGED <<predVars, fileVars, started, inp, svcVars, threads>>

FeatureNext == CallFeatures
FeatureSpec == FeatureInit /\ [][FeatureNext]_vars

\* create_all_features returned a vector
VectorReturned == lastCall # NoCall /\ lastCall.ret # <<>>
FeatureNames(vector) == [i \in DOMAIN vector |-> vector[i][1]]
FeatureValue(vector, name) ==
    vector[CHOOSE i \in DOMAIN vector : vector[i][1] = name][2]
HasFeature(vector, name) == \E i \in DOMAIN vector : vector[i][1] = name

\* the feature names in the order the classifier receives them
FeatureCatalog ==
    <<"price_change_1", "price_change_5", "high_low_ratio", "close_open_ratio",
      "ema_20_50_cross", "ema_50_200_cross", "macd_signal_cross",
      "price_above_ema20", "volume_ratio", "volume_change_1", "volume_trend_5",
      "bb_width", "atr", "rsi_14", "rsi_7", "macd_histogram", "stoch_k",
      "stoch_d", "adx", "cci", "btc_dominance", "fear_greed_index",
      "market_regime_encoded">>

\* C14: whenever create_all_features returns a vector, its sequence of
\* feature names is the catalog, whatever the window length, the indicator
\* snapshot and the market context.
C14_FixedKeyOrder ==
    VectorReturned => FeatureNames(lastCall.ret) = FeatureCatalog

\* C14 for a window of at least one candle: the part of C14 the code keeps
C14_FixedKeyOrderNonEmptyWindow ==
    (VectorReturned /\ Len(inp.candles) >= 1) =>
        FeatureNames(lastCall.ret) = FeatureCatalog

\* the documented neutral default of each momentum feature
MomentumDefaults ==
    [rsi_14 |-> F(50), rsi_7 |-> F(50), macd_histogram |-> 0,
     stoch_k |-> F(50), stoch_d |-> F(50), adx |-> 0, cci |-> 0]
MomentumKeys == {"rsi_14", "rsi_7", "macd_histogram", "stoch_k", "stoch_d", "adx", "cci"}
KeyMissing(indicators, k) == k \notin DOMAIN indicators
KeyNull(indicators, k) == k \in DOMAIN indicators /\ indicators[k] = None

\* C15: in a returned vector every momentum indicator that is missing from
\* the snapshot or present with a null value carries its neutral default
\* (50 for rsi_14, rsi_7, stoch_k, stoch_d; 0 for macd_histogram, adx, cci).
C15_NullBecomesDefault ==
    VectorReturned =>
        \A k \in MomentumKeys :
            (KeyMissing(inp.indicators, k) \/ KeyNull(inp.indicators, k)) =>
                FeatureValue(lastCall.ret, k) = MomentumDefaults[k]

\* C15 as the code has it: a missing key takes the default, a key present
\* with a null value becomes 0.0, a valued key is copied
C15_MissingDefaultNullZero ==
    VectorReturned =>
        \A k \in MomentumKeys :
            /\ KeyMissing(inp.indicators, k) =>
                   FeatureValue(lastCall.ret, k) = MomentumDefaults[k]
            /\ KeyNull(inp.indicators, k) => FeatureValue(lastCall.ret, k) = 0
            /\ (~KeyMissing(inp.indicators, k) /\ ~KeyNull(inp.indicators, k)) =>
                   FeatureValue(lastCall.ret, k) = inp.indicators[k]

\* the market context is absent: None or an empty mapping
ContextAbsent(market_context) == ~DictTruthy(market_context)
RegimeCode(regime) == IF regime = "bull" THEN 1 ELSE IF regime = "bear" THEN 0 - 1 ELSE 0
RegimeOf(market_context) ==
    IF "market_regime" \in DOMAIN market_context
    THEN market_context.market_regime ELSE "unknown"
\* the value of a context field when it is available, None otherwise: a field
\* of the stored row for a context built by generate_prediction, a key of
\* the mapping otherwise
Available(x, field) ==
    IF x.context_row # NoneDict
    THEN x.context_row[field]
    ELSE IF field \in DOMAIN x.market_context THEN x.market_context[field] ELSE None
BuiltFromRow(x) == x.context_row # NoneDict
prepare_dataframe(candles) ==
    SortSeq(candles, LAMBDA a, b : a.open_time < b.open_time)

Column(df, name) == [i \in DOMAIN df |-> df[i][name]]

\* series.diff(): NaN first, then the differences
Diff(xs) == [i \in DOMAIN xs |-> IF i = 1 THEN None ELSE xs[i] - xs[i - 1]]

RECURSIVE SumLast(_, _)
\* the sum of the last n entries of xs, None (NaN) when one of them is NaN
SumLast(xs, n) ==
    IF n = 0 THEN 0
    ELSE LET rest == SumLast(SubSeq(xs, 1, Len(xs) - 1), n - 1)
         IN  IF xs[Len(xs)] = None \/ rest = None THEN None
             ELSE xs[Len(xs)] + rest

\* series.rolling(window=period).sum().iloc[-1]: NaN below period rows
RollingSum(xs, period) ==
    IF Len(xs) < period THEN None ELSE SumLast(xs, period)

\* rsi = 100 - 100 / (1 + rs) for rs = gain / loss, with gain and loss given
\* as rolling sums (the two rolling means have the same divisor, period):
\* 0 / 0 is NaN, gain / 0 is inf and 100 / inf is 0
RsiValue_flat_is_50(gain, loss) ==
    IF gain = None \/ loss = None THEN None
    ELSE IF loss = 0 THEN (IF gain = 0 THEN F(50) ELSE F(100))
    ELSE F(100) - (F(100) * loss) \div (loss + gain)

RsiValue(gain, loss) ==
    IF gain = None \/ loss = None THEN None
    ELSE IF loss = 0 THEN (IF gain = 0 THEN None ELSE F(100))
    ELSE F(100) - (F(100) * loss) \div (loss + gain)

\* calculate_rsi(df, period)
calculate_rsi(df, period, raises) ==
    IF raises \/ Len(df) = 0 THEN None
    ELSE LET delta == Diff(Column(df, "close"))
             gains == [i \in DOMAIN delta |->
                          IF delta[i] # None /\ delta[i] > 0 THEN delta[i] ELSE 0]
             losses == [i \in DOMAIN delta |->
                          IF delta[i] # None /\ delta[i] < 0 THEN 0 - delta[i] ELSE 0]
         IN  RsiValue(RollingSum(gains, period), RollingSum(losses, period))

\* series.rolling(window=period).mean().iloc[-1]
RollingMean(xs, period) ==
    IF RollingSum(xs, period) = None THEN None
    ELSE RollingSum(xs, period) \div period

RECURSIVE Ewm(_, _)
\* series.ewm(span=span, adjust=False).mean().iloc[-1] of a non-empty
\* series: y1 = x1, y = (2 x + (span - 1) y_before) / (span + 1); never NaN
Ewm(xs, span) ==
    IF Len(xs) = 1 THEN xs[1]
    ELSE (2 * xs[Len(xs)] + (span - 1) * Ewm(SubSeq(xs, 1, Len(xs) - 1), span))
             \div (span + 1)

\* calculate_ema(df, period)
calculate_ema(df, period, raises) ==
    IF raises \/ Len(df) = 0 THEN None ELSE Ewm(Column(df, "close"), period)

\* calculate_sma(df, period)
calculate_sma(df, period, raises) ==
    IF raises \/ Len(df) = 0 THEN None ELSE RollingMean(Column(df, "close"), period)

MacdSeries(closes) ==
    [i \in DOMAIN closes |->
        Ewm(SubSeq(closes, 1, i), 12) - Ewm(SubSeq(closes, 1, i), 26)]

\* calculate_macd with a failure that loses the three entries
calculate_macd_drops_entries(df, raises) ==
    IF raises \/ Len(df) = 0
    THEN [x \in {} |-> None]
    ELSE [macd |-> MacdSeries(Column(df, "close"))[Len(df)],
          macd_signal |-> Ewm(MacdSeries(Column(df, "close")), 9),
          macd_histogram |-> MacdSeries(Column(df, "close"))[Len(df)]
                                 - Ewm(MacdSeries(Column(df, "close")), 9)]

\* calculate_macd(df)
calculate_macd(df, raises) ==
    IF raises \/ Len(df) = 0
    THEN [macd |-> None, macd_signal |-> None, macd_histogram |-> None]
    ELSE [macd |-> MacdSeries(Column(df, "close"))[Len(df)],
          macd_signal |-> Ewm(MacdSeries(Column(df, "close")), 9),
          macd_histogram |-> MacdSeries(Column(df, "close"))[Len(df)]
                                 - Ewm(MacdSeries(Column(df, "close")), 9)]

\* the square root of a variance, cut to the model's precision
Sqrt(v) == CHOOSE k \in 0..(2 * UNIT) : k * k <= v /\ v < (k + 1) * (k + 1)

\* series.rolling(window=period).std().iloc[-1] (sample deviation)
RollingStd(xs, period) ==
    IF RollingMean(xs, period) = None THEN None
    ELSE Sqrt(SumLast([i \in DOMAIN xs |->
                          (xs[i] - RollingMean(xs, period))
                              * (xs[i] - RollingMean(xs, period))], period)
                  \div (period - 1))

\* the width of the bands: computed only when the three bands are truthy
BandWidth(upper_val, lower_val, middle_val) ==
    IF Truthy(upper_val) /\ Truthy(lower_val) /\ Truthy(middle_val)
    THEN ((upper_val - lower_val) * 100 * UNIT) \div middle_val
    ELSE None

BandsOf(middle, std_dev) ==
    IF middle = None \/ std_dev = None
    THEN [bb_upper |-> None, bb_middle |-> middle, bb_lower |-> None,
          bb_width |-> None]
    ELSE [bb_upper |-> middle + 2 * std_dev, bb_middle |-> middle,
          bb_lower |-> middle - 2 * std_dev,
          bb_width |-> BandWidth(middle + 2 * std_dev, middle - 2 * std_dev, middle)]

\* calculate_bollinger_bands(df, period=20, std=2)
calculate_bollinger_bands(df, raises) ==
    IF raises \/ Len(df) = 0
    THEN [bb_upper |-> None, bb_middle |-> None, bb_lower |-> None,
          bb_width |-> None]
    ELSE BandsOf(RollingMean(Column(df, "close"), 20),
                 RollingStd(Column(df, "close"), 20))

Max2(a, b) == IF a < b THEN b ELSE a
\* max(axis=1) of high - low, |high - close.shift()|, |low - close.shift()|,
\* the NaN of the first row skipped
TrueRange(df) ==
    [i \in DOMAIN df |->
        IF i = 1 THEN df[i].high - df[i].low
        ELSE Max2(df[i].high - df[i].low,
                  Max2(Abs(df[i].high - df[i - 1].close),
                       Abs(df[i].low - df[i - 1].close)))]

\* calculate_atr(df, period=14)
calculate_atr(df, raises) ==
    IF raises \/ Len(df) = 0 THEN None ELSE RollingMean(TrueRange(df), 14)

\* volume_ratio of calculate_volume_indicators: set when volume_avg > 0
\* (false for NaN), returned when it is truthy
VolumeRatio(current_volume, volume_avg) ==
    IF volume_avg # None /\ volume_avg > 0
            /\ (current_volume * 100 * UNIT) \div volume_avg # 0
    THEN (current_volume * 100 * UNIT) \div volume_avg
    ELSE None

\* calculate_volume_indicators(df, period=20)
calculate_volume_indicators(df, raises) ==
    IF raises \/ Len(df) = 0
    THEN [volume_avg_20 |-> None, volume_ratio |-> None]
    ELSE [volume_avg_20 |-> RollingMean(Column(df, "volume"), 20),
          volume_ratio |-> VolumeRatio(df[Len(df)].volume,
                                       RollingMean(Column(df, "volume"), 20))]

\* float division: 0 / 0 is NaN, x / 0 is +inf or -inf
Inf == 2 * UNIT * UNIT * UNIT
Quot(num, den) ==
    IF num = None \/ den = None THEN None
    ELSE IF den = 0
    THEN (IF num = 0 THEN None ELSE IF num > 0 THEN Inf ELSE 0 - Inf)
    ELSE (num * UNIT) \div den

\* rolling(window=period).min() / .max() at row i, NaN below period rows
RollingMin(xs, i, period) ==
    IF i < period THEN None
    ELSE CHOOSE m \in {xs[j] : j \in (i - period + 1)..i} :
             \A j \in (i - period + 1)..i : m <= xs[j]
RollingMax(xs, i, period) ==
    IF i < period THEN None
    ELSE CHOOSE m \in {xs[j] : j \in (i - period + 1)..i} :
             \A j \in (i - period + 1)..i : xs[j] <= m

\* (close - low_min) / (high_max - low_min) at row i
RangePosition(df, i, period) ==
    IF i < period THEN None
    ELSE Quot(df[i].close - RollingMin(Column(df, "low"), i, period),
              RollingMax(Column(df, "high"), i, period)
                  - RollingMin(Column(df, "low"), i, period))

\* 100 * x for a float x
Times100(x) ==
    IF x = None THEN None
    ELSE IF x = Inf \/ x = 0 - Inf THEN x ELSE 100 * x

\* the mean of three floats: NaN with a NaN or with both infinities among
\* them, an infinity with one infinity among them
Mean3(a, b, c) ==
    IF None \in {a, b, c} THEN None
    ELSE IF Inf \in {a, b, c} /\ (0 - Inf) \in {a, b, c} THEN None
    ELSE IF Inf \in {a, b, c} THEN Inf
    ELSE IF (0 - Inf) \in {a, b, c} THEN 0 - Inf
    ELSE (a + b + c) \div 3

StochK(df, i) == IF i < 1 THEN None ELSE Times100(RangePosition(df, i, 14))

\* calculate_stochastic(df, k_period=14, d_period=3)
calculate_stochastic(df, raises) ==
    IF raises \/ Len(df) = 0
    THEN [stoch_k |-> None, stoch_d |-> None]
    ELSE [stoch_k |-> StochK(df, Len(df)),
          stoch_d |-> Mean3(StochK(df, Len(df)), StochK(df, Len(df) - 1),
                            StochK(df, Len(df) - 2))]

\* calculate_adx(df): "retornamos None por ahora"
calculate_adx(df) == None

TypicalPrice(df) == [i \in DOMAIN df |-> (df[i].high + df[i].low + df[i].close) \div 3]

\* (tp - sma) / (0.015 * mad) for the mean absolute deviation mad of the
\* last 20 typical prices
CciOf(tp, sma) ==
    IF sma = None THEN None
    ELSE Quot((tp[Len(tp)] - sma) * 1000,
              15 * (SumLast([i \in DOMAIN tp |-> Abs(tp[i] - sma)], 20) \div 20))

\* calculate_cci(df, period=20)
calculate_cci(df, raises) ==
    IF raises \/ Len(df) = 0 THEN None
    ELSE CciOf(TypicalPrice(df), RollingMean(TypicalPrice(df), 20))

\* -100 * (high_max - close) / (high_max - low_min): -100 * (1 - position)
WillrOf(position) ==
    IF position = None THEN None
    ELSE IF position = Inf \/ position = 0 - Inf THEN 0 - position
    ELSE 0 - 100 * (UNIT - position)

\* calculate_willr(df, period=14)
calculate_willr(df, raises) ==
    IF raises \/ Len(df) = 0 THEN None ELSE WillrOf(RangePosition(df, Len(df), 14))

Sign(x) == IF x = None THEN None ELSE IF x > 0 THEN 1 ELSE IF x < 0 THEN 0 - 1 ELSE 0

\* calculate_obv(df): (sign(close.diff()) * volume).fillna(0).cumsum()
calculate_obv(df, raises) ==
    IF raises \/ Len(df) = 0 THEN None
    ELSE SumLast([i \in DOMAIN df |->
                     IF i = 1 THEN 0
                     ELSE Sign(df[i].close - df[i - 1].close) * df[i].volume],
                 Len(df))

\* the guarded computations of calculate_all_indicators
Computations ==
    {"rsi_14", "rsi_7", "macd", "ema_9", "ema_20", "ema_50", "ema_100",
     "ema_200", "sma_20", "sma_50", "sma_200", "bollinger_bands", "atr",
     "volume_indicators", "stochastic", "cci", "willr", "obv"}

\* the entries each computation writes into the snapshot
EntriesOf(computation) ==
    CASE computation = "macd" -> {"macd", "macd_signal", "macd_histogram"}
      [] computation = "bollinger_bands" ->
             {"bb_upper", "bb_middle", "bb_lower", "bb_width"}
      [] computation = "volume_indicators" -> {"volume_avg_20", "volume_ratio"}
      [] computation = "stochastic" -> {"stoch_k", "stoch_d"}
      [] OTHER -> {computation}

\* calculate_all_indicators(candles).  raises is the set of computations in
\* which a statement raises; "prepare_dataframe" in raises is a failure
\* outside the guarded computations: the outer except returns {}.
calculate_all_indicators(candles, raises) ==
    IF "prepare_dataframe" \in raises THEN [x \in {} |-> None]
    ELSE [rsi_14 |-> calculate_rsi(prepare_dataframe(candles), 14, "rsi_14" \in raises),
          rsi_7 |-> calculate_rsi(prepare_dataframe(candles), 7, "rsi_7" \in raises)]
         @@ calculate_macd(prepare_dataframe(candles), "macd" \in raises)
         @@ [ema_9 |-> calculate_ema(prepare_dataframe(candles), 9, "ema_9" \in raises),
             ema_20 |-> calculate_ema(prepare_dataframe(candles), 20, "ema_20" \in raises),
             ema_50 |-> calculate_ema(prepare_dataframe(candles), 50, "ema_50" \in raises),
             ema_100 |-> calculate_ema(prepare_dataframe(candles), 100, "ema_100" \in raises),
             ema_200 |-> calculate_ema(prepare_dataframe(candles), 200, "ema_200" \in raises),
             sma_20 |-> calculate_sma(prepare_dataframe(candles), 20, "sma_20" \in raises),
             sma_50 |-> calculate_sma(prepare_dataframe(candles), 50, "sma_50" \in raises),
             sma_200 |-> calculate_sma(prepare_dataframe(candles), 200, "sma_200" \in raises)]
         @@ calculate_bollinger_bands(prepare_dataframe(candles),
                                      "bollinger_bands" \in raises)
         @@ [atr |-> calculate_atr(prepare_dataframe(candles), "atr" \in raises)]
         @@ calculate_volume_indicators(prepare_dataframe(candles),
                                        "volume_indicators" \in raises)
         @@ calculate_stochastic(prepare_dataframe(candles), "stochastic" \in raises)
         @@ [adx |-> calculate_adx(prepare_dataframe(candles)),
             cci |-> calculate_cci(prepare_dataframe(candles), "cci" \in raises),
             willr |-> calculate_willr(prepare_dataframe(candles), "willr" \in raises),
             obv |-> calculate_obv(prepare_dataframe(candles), "obv" \in raises)]

(***************************************************************************)
(* IndicatorSpec: the calculator on windows built from close-to-close      *)
(* steps.                                                                  *)
(***************************************************************************)
MaxSteps == 7
Steps == {0 - 20, 0, 10}
StepPatterns(n) == [1..n -> Steps]

RECURSIVE ClosesFrom(_, _)
\* the closes that start at first and move by the steps
ClosesFrom(first, steps) ==
    IF Len(steps) = 0 THEN <<first>>
    ELSE <<first>> \o ClosesFrom(first + steps[1], Tail(steps))

WindowOfCloses(closes) ==
    [i \in DOMAIN closes |->
        [open_time |-> i, open |-> closes[i], high |-> closes[i] + 30,
         low |-> closes[i] - 30, close |-> closes[i], volume |-> F(1) + 10 * i]]

StepWindows ==
    {WindowOfCloses(<<>>)}
    \cup {WindowOfCloses(ClosesFrom(F(100), p)) :
             p \in UNION {StepPatterns(n) : n \in 0..MaxSteps}}
    \cup {WindowOfCloses(ClosesFrom(F(100), p \o p)) : p \in StepPatterns(MaxSteps)}
    \cup {WindowOfCloses(ClosesFrom(F(100), p \o SubSeq(p, 1, MaxSteps - 1))) :
             p \in StepPatterns(MaxSteps)}

RsiInputs == [op : {"calculate_rsi"}, candles : StepWindows, period : {14, 7}]

\* windows of 1, 15 and 21 candles: rising, flat, and falling then rising
SnapshotWindows ==
    {WindowOfCloses(ClosesFrom(F(100), [i \in 1..n |-> step[(i % 2) + 1]])) :
        n \in {0, 2 * MaxSteps, 2 * MaxSteps + 6},
        step \in {<<10, 10>>, <<0, 0>>, <<0 - 20, 10>>}}

FailureSets ==
    {{}} \cup {{c} : c \in Computations} \cup {{"macd", "atr"}, Computations}

SnapshotInputs ==
    [op : {"calculate_all_indicators"}, candles : SnapshotWindows,
     raises : FailureSets]

IndicatorInputs == RsiInputs \cup SnapshotInputs

IndicatorInit ==
    /\ InitPredictor
    /\ PredictorOnly
    /\ modelFile = Absent
    /\ scalerFile = Absent
    /\ inp \in IndicatorInputs
    /\ lastCall = NoCall

\* indicator_calculator.calculate_rsi(prepare_dataframe(candles), period)
CallRsi ==
    /\ lastCall = NoCall
    /\ inp.op = "calculate_rsi"
    /\ lastCall' = [ret |-> calculate_rsi(prepare_dataframe(inp.candles),
                                          inp.period, FALSE)]
    /\ UNCHANGED <<predVars, fileVars, started, inp, svcVars, threads>>

\* indicator_calculator.calculate_all_indicators(candles), the computations
\* of inp.raises failing
CallAllIndicators ==
    /\ lastCall = NoCall
    /\ inp.op = "calculate_all_indicators"
    /\ lastCall' = [ret |-> calculate_all_indicators(inp.candles, inp.raises)]
    /\ UNCHANGED <<predVars, fileVars, started, inp, svcVars, threads>>

IndicatorNext ==
    \/ CallRsi
    \/ CallAllIndicators

IndicatorSpec == IndicatorInit /\ [][IndicatorNext]_vars

RsiCalled == lastCall # NoCall /\ inp.op = "calculate_rsi"
\* the close-to-close changes of the last period rows (the first row of a
\* frame has none)
LastDeltas(candles, period) ==
    {<<i, candles[i].close - candles[i - 1].close>> :
        i \in {j \in DOMAIN candles : j > 1 /\ j > Len(candles) - period}}
RECURSIVE SumOfPairs(_)
SumOfPairs(S) ==
    IF S = {} THEN 0
    ELSE LET x == CHOOSE y \in S : TRUE IN x[2] + SumOfPairs(S \ {x})
TotalGain(candles, period) ==
    SumOfPairs({d \in LastDeltas(candles, period) : d[2] > 0})
TotalLoss(candles, period) ==
    0 - SumOfPairs({d \in LastDeltas(candles, period) : d[2] < 0})

\* C18: calculate_rsi returns null or a value in [0, 100]; a non-null value
\* is 100 - 100 / (1 + RS), RS the ratio of the summed gains to the summed
\* losses of the last period rows (100 * gain / (gain + loss) up to the
\* last digit); a window whose last period rows only rise gives 100, a flat
\* one gives null, and fewer rows than the period give null.
C18_RsiBounded ==
    RsiCalled =>
        LET rsi == lastCall.ret
            gain == TotalGain(inp.candles, inp.period)
            loss == TotalLoss(inp.candles, inp.period)
            enough == Len(inp.candles) >= inp.period
        IN  /\ rsi = None \/ (0 <= rsi /\ rsi <= F(100))
            /\ ~enough => rsi = None
            /\ (enough /\ gain = 0 /\ loss = 0) => rsi = None
            /\ (enough /\ gain > 0 /\ loss = 0) => rsi = F(100)
            /\ (enough /\ loss > 0) =>
                   /\ rsi # None
                   /\ F(100) * gain <= rsi * (gain + loss)
                   /\ rsi * (gain + loss) < F(100) * gain + (gain + loss)

\* C18 witnesses: an all-gains window of 15 candles has RSI(14) = 100, and a
\* mixed window has an RSI strictly between 0 and 100
C18_Witness ==
    /\ RsiCalled
    /\ inp.period = 14
    /\ Len(inp.candles) = 2 * MaxSteps + 1
    /\ TotalLoss(inp.candles, 14) = 0
    /\ lastCall.ret = F(100)

SnapshotCalled == lastCall # NoCall /\ inp.op = "calculate_all_indicators"
\* every name the snapshot carries
IndicatorNames ==
    UNION {EntriesOf(c) : c \in Computations} \cup {"adx"}
\* the entries of the computations that failed
FailedEntries(raises) == UNION {EntriesOf(c) : c \in raises}

\* C17: for a non-empty window the snapshot holds every indicator name; the
\* entries of a failed computation are null and every other entry is what
\* it is when nothing fails; the snapshot is never empty.
C17_FailureIsolation ==
    (SnapshotCalled /\ Len(inp.candles) >= 1) =>
        /\ DOMAIN lastCall.ret = IndicatorNames
        /\ \A name \in FailedEntries(inp.raises) : lastCall.ret[name] = None
        /\ \E unfailed \in {calculate_all_indicators(inp.candles, {})} :
               \A name \in IndicatorNames \ FailedEntries(inp.raises) :
                   lastCall.ret[name] = unfailed[name]

\* C17 witness: MACD fails on a window of 21 candles; its three entries are
\* null while rsi_14, ema_20, sma_20, atr and bb_width have values
C17_Witness ==
    /\ SnapshotCalled
    /\ Len(inp.candles) = 2 * MaxSteps + 7
    /\ inp.raises = {"macd"}
    /\ lastCall.ret.macd = None
    /\ lastCall.ret.macd_histogram = None
    /\ lastCall.ret.rsi_14 # None
    /\ lastCall.ret.ema_20 # None
    /\ lastCall.ret.sma_20 # None
    /\ lastCall.ret.atr # None
    /\ lastCall.ret.bb_width # None

(***************************************************************************)
(* Properties of the stored candles                                        *)
(***************************************************************************)
Lowest(c) == Min2(Min2(c.open, c.close), Min2(c.high, c.low))
Highest(c) == 0 - Min2(Min2(0 - c.open, 0 - c.close), Min2(0 - c.high, 0 - c.low))
\* high >= max(open, close, low), low <= min(open, close, high) and
\* close_time > open_time
WellFormed(c) ==
    /\ c.high = Highest(c)
    /\ c.low = Lowest(c)
    /\ c.close_time > c.open_time
Submitted(r) == requests[r].pc # "idle"
\* request r was rejected and left nothing behind
RejectedWith(r, status) ==
    /\ requests[r].status = status
    /\ IsNoneDict(requests[r].candle)
    /\ IsNoneDict(requests[r].indicator)
    /\ IsNoneDict(requests[r].gp)
\* every stored candle beyond the initial history belongs to one request
\* that was not rejected
StoredByRequests ==
    /\ Len(db.candles)
           = Len(StoredCandles)
               + Cardinality({r \in Requests : ~IsNoneDict(requests[r].candle)})
    /\ Len(db.indicators) <= Cardinality({r \in Requests :
                                             ~IsNoneDict(requests[r].indicator)})
    /\ Len(db.predictions) <= Cardinality({r \in Requests :
                                              ~IsNoneDict(requests[r].gp)})

\* C19: every stored candle has high >= max(open, close, low),
\* low <= min(open, close, high) and close_time > open_time; a submission
\* violating one of them is rejected with 422 and stores nothing.
C19_StoredCandlesWellFormed ==
    /\ \A i \in DOMAIN db.candles : WellFormed(db.candles[i])
    /\ \A r \in Requests :
          (Submitted(r) /\ ~WellFormed(requests[r].body)) => RejectedWith(r, 422)
    /\ StoredByRequests

\* C19 as the code has it: close_time > open_time is enforced, the price
\* ordering is not
C19_CloseTimeEnforced ==
    /\ \A i \in DOMAIN db.candles :
          db.candles[i].close_time > db.candles[i].open_time
    /\ \A r \in Requests :
          (Submitted(r) /\ requests[r].body.close_time <= requests[r].body.open_time)
              => RejectedWith(r, 422)
    /\ StoredByRequests

KeyOf(c) == <<c.symbol, c.timeframe, c.open_time>>
SameKey(a, b) == KeyOf(a) = KeyOf(b)

\* C20: no two stored candles share (symbol, timeframe, open_time); a
\* request whose key is already stored ends with 409 and adds no candle, no
\* indicator snapshot and no prediction, also while the request that stored
\* the key is still running.
C20_UniqueKey ==
    /\ Cardinality({KeyOf(db.candles[i]) : i \in DOMAIN db.candles})
           = Len(db.candles)
    /\ \A r \in Requests :
          requests[r].status = 409 =>
              /\ RejectedWith(r, 409)
              /\ \E i \in DOMAIN db.candles : SameKey(db.candles[i], requests[r].body)
    /\ \A r \in Requests :
          (Submitted(r) /\ requests[r].status \notin {409, 422}) =>
              /\ ~IsNoneDict(requests[r].candle)
              /\ SameKey(requests[r].candle, requests[r].body)
              /\ requests[r].candle \in {db.candles[i] : i \in DOMAIN db.candles}
    /\ StoredByRequests

\* C20 witness: a request is answered 409 while the request that stored the
\* same key is still waiting for the market context
C20_Witness ==
    \E r, first \in Requests :
        /\ requests[r].status = 409
        /\ requests[first].pc = "await_context"
        /\ SameKey(requests[first].candle, requests[r].body)
        /\ Len(db.candles) = Len(StoredCandles) + 1

(***************************************************************************)
(* Properties of the signals under the default threshold                   *)
(***************************************************************************)
DefaultThreshold ==
    settings.MIN_CONFIDENCE_THRESHOLD = DEFAULT_MIN_CONFIDENCE_THRESHOLD
\* the signals generate_prediction returned to the route
ReturnedSignals ==
    {requests[r].gp.ret : r \in {x \in Requests :
        ~IsNoneDict(requests[x].gp) /\ ~IsNoneDict(requests[x].gp.ret)}}
StoredSignals == {db.predictions[i] : i \in DOMAIN db.predictions}

\* C21: with the default threshold 70 no stored and no returned signal has
\* priority LOW.
C21_NoLowAtDefaultThreshold ==
    DefaultThreshold =>
        \A p \in StoredSignals \cup ReturnedSignals : p.priority # "LOW"

\* C21 witness: under the default threshold a signal with confidence exactly
\* 70 is stored with priority MEDIUM
C21_Witness ==
    /\ DefaultThreshold
    /\ \E p \in StoredSignals \cap ReturnedSignals :
          p.confidence_score = F(70) /\ p.priority = "MEDIUM"

(***************************************************************************)
(* Properties of the cross features                                        *)
(***************************************************************************)
\* the cross features with their two inputs
CrossInputs ==
    {<<"ema_20_50_cross", "ema_20", "ema_50">>,
     <<"ema_50_200_cross", "ema_50", "ema_200">>,
     <<"macd_signal_cross", "macd", "macd_signal">>}
\* the input is available: in the mapping and not null
IsAvailable(indicators, k) == ~KeyMissing(indicators, k) /\ ~KeyNull(indicators, k)

\* C22: each cross feature is -1, 0 or +1; it is 0 when one of its inputs is
\* missing or null, and with both inputs numeric (0 included) it is +1 when
\* the first is greater than the second and -1 when it is less.
C22_CrossFeatures ==
    VectorReturned =>
        \A x \in CrossInputs :
            LET cross == FeatureValue(lastCall.ret, x[1])
                a == x[2]
                b == x[3]
            IN  /\ cross \in {0 - F(1), 0, F(1)}
                /\ (~IsAvailable(inp.indicators, a) \/ ~IsAvailable(inp.indicators, b))
                       => cross = 0
                /\ (IsAvailable(inp.indicators, a) /\ IsAvailable(inp.indicators, b)) =>
                       /\ inp.indicators[a] > inp.indicators[b] => cross = F(1)
                       /\ inp.indicators[a] < inp.indicators[b] => cross = 0 - F(1)

\* C22 as the code has it: an input of 0 counts as unavailable, and two
\* equal non-zero inputs give -1
C22_CrossOfTruthyInputs ==
    VectorReturned =>
        \A x \in CrossInputs :
            LET cross == FeatureValue(lastCall.ret, x[1])
                a == Get(inp.indicators, x[2], None)
                b == Get(inp.indicators, x[3], None)
            IN  /\ cross \in {0 - F(1), 0, F(1)}
                /\ (a \in {None, 0} \/ b \in {None, 0}) => cross = 0
                /\ (a \notin {None, 0} /\ b \notin {None, 0}) =>
                       cross = IF a > b THEN F(1) ELSE 0 - F(1)

(***************************************************************************)
(* Properties of the moving averages of the snapshot                       *)
(***************************************************************************)
EmaEntries == {<<"ema_9", 9>>, <<"ema_20", 20>>, <<"ema_50", 50>>,
               <<"ema_100", 100>>, <<"ema_200", 200>>}
SmaEntries == {<<"sma_20", 20>>, <<"sma_50", 50>>, <<"sma_200", 200>>}

\* C23: in the snapshot of a window with fewer than p candles EMA(p), for p
\* in {9, 20, 50, 100, 200}, and SMA(p), for p in {20, 50, 200}, are null.
C23_ShortWindowAveragesNull ==
    SnapshotCalled =>
        \A e \in EmaEntries \cup SmaEntries :
            Len(inp.candles) < e[2] => lastCall.ret[e[1]] = None

\* C23 as the code has it: SMA(p) is null below p candles, EMA(p) has a
\* value on every non-empty window unless its computation fails
C23_SmaNullEmaValued ==
    SnapshotCalled =>
        /\ \A e \in SmaEntries :
              Len(inp.candles) < e[2] => lastCall.ret[e[1]] = None
        /\ \A e \in EmaEntries :
              (Len(inp.candles) >= 1 /\ e[1] \notin inp.raises)
                  => lastCall.ret[e[1]] # None

(***************************************************************************)
(* Properties of the minimum history                                       *)
(***************************************************************************)
\* the candles of the series of request r that were stored when r was
\* processed: ids grow with every insert
HistoryAt(r) ==
    {i \in DOMAIN db.candles :
        /\ db.candles[i].symbol = requests[r].candle.symbol
        /\ db.candles[i].timeframe = requests[r].candle.timeframe
        /\ db.candles[i].id <= requests[r].candle.id}
Accepted(r) == Submitted(r) /\ ~IsNoneDict(requests[r].candle)
\* the context rows were all saved by requests that went on to
\* generate_prediction
ContextsFetched == {r \in Requests : ~IsNoneDict(requests[r].args)}

\* C24: a candle processed with fewer than 50 stored candles of its series
\* is stored, gets no indicator snapshot, no market-context fetch and no
\* prediction, and its response has indicators_calculated = false and
\* prediction = null.
C24_ShortHistoryStoresCandleOnly ==
    /\ \A r \in Requests :
          (Accepted(r) /\ Cardinality(HistoryAt(r)) < MIN_CANDLES_FOR_INDICATORS) =>
              /\ requests[r].pc = "done"
              /\ requests[r].status = 201
              /\ requests[r].candle \in {db.candles[i] : i \in DOMAIN db.candles}
              /\ IsNoneDict(requests[r].indicator)
              /\ \A i \in DOMAIN db.indicators :
                    db.indicators[i].candle_id # requests[r].candle.id
              /\ IsNoneDict(requests[r].args)
              /\ IsNoneDict(requests[r].gp)
              /\ PredictionsFor(r) = {}
              /\ requests[r].response.indicators_calculated = FALSE
              /\ IsNoneDict(requests[r].response.prediction)
    /\ Len(db.market_context) <= Cardinality(ContextsFetched)

\* C24 witness: the first candle of the 4h series is stored and answered
\* without indicators, while the 1h series has its snapshot
C24_Witness ==
    \E r \in Requests :
        /\ Accepted(r)
        /\ requests[r].candle.timeframe = "4h"
        /\ Cardinality(HistoryAt(r)) = 1
        /\ requests[r].status = 201
        /\ requests[r].response.indicators_calculated = FALSE
        /\ Len(db.indicators) = 1

(***************************************************************************)
(* Properties of the stored predictions                                    *)
(***************************************************************************)
PredictionKey(p) == <<p.symbol, p.timeframe, p.prediction_time>>
\* the requests whose generate_prediction returned a row
Signalled == {r \in Requests : ~IsNoneDict(requests[r].gp)
                                /\ ~IsNoneDict(requests[r].gp.ret)}

\* C25: there is at most one stored prediction per (symbol, timeframe,
\* prediction_time); every stored prediction has status PENDING, the
\* open_time of its candle as prediction_time and that open_time plus
\* 24 * 3600 * 1000 ms as expiration_time, and is still the row that
\* generate_prediction created for one request.
C25_OneSignalPerCandle ==
    /\ Cardinality({PredictionKey(db.predictions[i]) : i \in DOMAIN db.predictions})
           = Len(db.predictions)
    /\ \A i \in DOMAIN db.predictions :
          LET p == db.predictions[i]
          IN  /\ p.status = "PENDING"
              /\ p.expiration_time = p.prediction_time + 86400000
              /\ \E r \in Signalled :
                    /\ requests[r].gp.ret = p
                    /\ KeyOf(requests[r].candle) = PredictionKey(p)
    /\ \A r \in Signalled : requests[r].gp.ret \in StoredSignals
    /\ Cardinality(Signalled) = Len(db.predictions)

\* C25 witness: two candles of the series each have their own stored signal
C25_Witness ==
    /\ Len(db.predictions) = 2
    /\ db.predictions[1].prediction_time # db.predictions[2].prediction_time
    /\ db.predictions[1].status = "PENDING"
    /\ db.predictions[2].expiration_time = db.predictions[2].prediction_time + 86400000

(***************************************************************************)
(* Properties of load_model                                                *)
(***************************************************************************)
\* the last predict call went past the load: it used the classifier held
\* before the call or the one its own load_model call returned True for
PastTheLoad == lastCall # NoCall /\ ~(lastCall.load_called /\ ~lastCall.load_ret)

\* C26: the predictor holds a classifier only after a load_model call that
\* returned True, and a predict call goes past the load only with a
\* classifier that such a call left.
C26_ModelOnlyAfterSuccessfulLoad ==
    /\ model # NoneObj => everLoaded
    /\ PastTheLoad =>
          (lastCall.loaded_before \/ (lastCall.load_called /\ lastCall.load_ret))

\* C26 as the code has it: load_model leaves model and scaler as they were
\* when the model file is missing or cannot be loaded; a failure on the
\* scaler file comes after the model field was assigned
C26_FieldsKeptWithoutModelFile ==
    [][(modelFile \in {Absent, Corrupt}) => (model' = model /\ scaler' = scaler)]_vars

(***************************************************************************)
(* Properties of the rule-based signals                                    *)
(***************************************************************************)
\* no classifier can be loaded: there is no model file
NoClassifier == modelFile = Absent /\ model = NoneObj

\* the results predict handed to generate_prediction
PredictResults ==
    {requests[r].gp.call.ret : r \in {x \in Requests :
        /\ ~IsNoneDict(requests[x].gp)
        /\ ~IsNoneDict(requests[x].gp.call)
        /\ DictTruthy(requests[x].gp.call.ret)}}

\* C27: without a classifier every rule-based result has confidence 50, 70
\* or 75, and under the default threshold every signal is LONG or SHORT with
\* confidence 70 or 75 and priority MEDIUM or HIGH.
C27_RuleSignalsAtDefaultThreshold ==
    NoClassifier =>
        /\ \A d \in PredictResults :
              /\ d.model_version = "rules-based"
              /\ d.confidence \in {F(50), F(70), F(75)}
        /\ DefaultThreshold =>
              \A p \in StoredSignals \cup ReturnedSignals :
                  /\ p.prediction_type \in {"LONG", "SHORT"}
                  /\ p.confidence_score \in {F(70), F(75)}
                  /\ p.priority \in {"MEDIUM", "HIGH"}

\* C27 witness: without a classifier and under the default threshold a
\* rule-based SHORT with confidence 75 is stored with priority HIGH
C27_Witness ==
    /\ NoClassifier
    /\ DefaultThreshold
    /\ \E d \in PredictResults : d.confidence = F(75)
    /\ \E p \in StoredSignals \cap ReturnedSignals :
          /\ p.prediction_type = "SHORT"
          /\ p.confidence_score = F(75)
          /\ p.priority = "HIGH"

(***************************************************************************)
(* Properties of the candle windows of a request                           *)
(***************************************************************************)
Ascending(w) == \A i \in DOMAIN w : i > 1 => w[i - 1] < w[i]
SnapshotComputed(r) == Accepted(r) /\ ~IsNoneDict(requests[r].indicator)
PredictionRun(r) == Accepted(r) /\ ~IsNoneDict(requests[r].gp)
Elements(w) == {w[i] : i \in DOMAIN w}

\* C28: the window of the indicator snapshot of a candle c and the window
\* generate_prediction reads for c are the same sequence, strictly ascending
\* by open_time, and c is its last element.
C28_SameWindowEndingAtCandle ==
    \A r \in Requests :
        /\ SnapshotComputed(r) =>
              /\ Ascending(requests[r].window)
              /\ requests[r].window[Len(requests[r].window)]
                     = requests[r].candle.open_time
        /\ PredictionRun(r) => requests[r].gp.window = requests[r].window

\* C28 as the code has it: both windows are strictly ascending, hold c
\* somewhere, and the window of generate_prediction holds every candle of
\* the snapshot window (the series is shorter than MAX_CANDLES_HISTORY)
C28_AscendingWindowsHoldingCandle ==
    \A r \in Requests :
        /\ SnapshotComputed(r) =>
              /\ Ascending(requests[r].window)
              /\ requests[r].candle.open_time \in Elements(requests[r].window)
        /\ PredictionRun(r) =>
              /\ Ascending(requests[r].gp.window)
              /\ Elements(requests[r].window) \subseteq Elements(requests[r].gp.window)

\* the two ways the windows go wrong: a late candle is not the last element
\* of its own window, and a candle stored during the await of another
\* request enters that request's prediction window
C28_LateCandleInsideWindow ==
    \E r \in Requests :
        /\ SnapshotComputed(r)
        /\ requests[r].window[1] = requests[r].candle.open_time
        /\ Len(requests[r].window) > MIN_CANDLES_FOR_INDICATORS
C28_WindowGrownDuringAwait ==
    \E r \in Requests :
        /\ PredictionRun(r)
        /\ ~IsNoneDict(requests[r].gp.call)
        /\ Len(requests[r].gp.window) = Len(requests[r].window) + 1

(***************************************************************************)
(* Properties of the rules on null indicators                              *)
(***************************************************************************)
\* the five indicators the rules read, with their defaults
RuleDefaults ==
    [rsi_14 |-> F(50), macd |-> 0, macd_signal |-> 0, ema_20 |-> 0, ema_50 |-> 0]
NullRuleKeys ==
    {k \in DOMAIN RuleDefaults :
        k \in DOMAIN inp.indicators /\ inp.indicators[k] = None}
AbsentRuleKeys == DOMAIN RuleDefaults \ DOMAIN inp.indicators
\* the mapping with the default at every absent key
WithDefaults ==
    [k \in DOMAIN RuleDefaults |->
        IF k \in DOMAIN inp.indicators THEN inp.indicators[k] ELSE RuleDefaults[k]]
RulesPathTaken == lastCall # NoCall /\ lastCall.path = "rules"

\* C29: in the rule-based path a null value at any of the five keys makes
\* predict return None; with no null the absent keys take their defaults
\* and the remaining indicators are scored.
C29_NullIndicatorNoResult ==
    RulesPathTaken =>
        /\ NullRuleKeys # {} => (lastCall.ret = NoneDict /\ ~lastCall.exc)
        /\ NullRuleKeys = {} =>
              /\ lastCall.ret # NoneDict
              /\ lastCall.ret.type = RuleType(C6_Score(WithDefaults))
              /\ lastCall.ret.confidence = RuleConfidence(C6_Score(WithDefaults))

\* C29 witnesses: the only null is ema_50, the RSI alone would give LONG,
\* and predict returns None; with the same keys absent the result is scored
C29_Witness ==
    /\ RulesPathTaken
    /\ NullRuleKeys = {"ema_50"}
    /\ Get(inp.indicators, "rsi_14", None) = F(25)
    /\ Get(inp.indicators, "macd", 0) = 1200
    /\ lastCall.ret = NoneDict
C29_AbsentKeysScored ==
    /\ RulesPathTaken
    /\ AbsentRuleKeys = {"ema_50", "macd"}
    /\ NullRuleKeys = {}
    /\ lastCall.ret # NoneDict
    /\ lastCall.ret.type = "LONG"

(***************************************************************************)
(* Frame properties of the steps after the insert                          *)
(***************************************************************************)
\* every stored candle is still stored, unchanged: an insert moves a row
\* by at most one position of the index
CandlesKept ==
    \A i \in DOMAIN db.candles :
        \E j \in {i, i + 1} :
            j \in DOMAIN db'.candles /\ db'.candles[j] = db.candles[i]
\* the part of create_candle before the await runs for request r
SubmitStep(r) == requests[r].pc = "idle" /\ requests'[r].pc # "idle"
\* the part of create_candle after the await runs for request r
ResumeStep(r) == requests[r].pc = "await_context" /\ requests'[r].pc = "done"

\* C30: no step removes or alters a stored candle; a request whose indicator
\* computation fails stores no snapshot; the steps after the await leave
\* candles and snapshots as they are, and a generate_prediction that returns
\* no signal stores no prediction.
C30_LaterFailuresKeepCandle ==
    [][/\ CandlesKept
       /\ \A r \in Requests :
             /\ SubmitStep(r) =>
                   /\ db'.predictions = db.predictions
                   /\ IsNoneDict(requests'[r].indicator)
                         => db'.indicators = db.indicators
                   /\ ~IsNoneDict(requests'[r].candle) =>
                         \E i \in DOMAIN db'.candles :
                             db'.candles[i] = requests'[r].candle
             /\ ResumeStep(r) =>
                   /\ db'.candles = db.candles
                   /\ db'.indicators = db.indicators
                   /\ requests'[r].candle = requests[r].candle
                   /\ IsNoneDict(requests'[r].gp.ret)
                         => db'.predictions = db.predictions]_vars

\* C30 witness: generate_prediction discarded its candidate or failed; the
\* candle of the request and its snapshot are stored, no prediction is
C30_Witness ==
    \E r \in Requests :
        /\ PredictionRun(r)
        /\ requests[r].gp.outcome \in {"discarded", "error"}
        /\ \E i \in DOMAIN db.candles : db.candles[i] = requests[r].candle
        /\ \E i \in DOMAIN db.indicators :
              db.indicators[i] = requests[r].indicator
        /\ db.predictions = <<>>
\* and the case of the failed indicator computation: the 50th candle of the
\* series is stored without a snapshot
C30_FailedComputation ==
    \E r \in Requests :
        /\ Accepted(r)
        /\ inp.engine = EngineFailed
        /\ Cardinality(HistoryAt(r)) >= MIN_CANDLES_FOR_INDICATORS
        /\ \E i \in DOMAIN db.candles : db.candles[i] = requests[r].candle
        /\ db.indicators = <<>>
        /\ requests[r].response.indicators_calculated = FALSE

====
